---- MODULE Spec2Model ----
(***************************************************************************)
(* State-machine model of the zkpay TypeScript SDK's session lifecycle:    *)
(* AuthManager (src/src/lib/authManager.ts) with its callers, the signer,  *)
(* the POST /v1/auth exchange, the clock and localStorage; and of the       *)
(* Merchant (src/unnamed/part_001) whose createPayment and queryPayments    *)
(* authenticate through it before they send a channel request.             *)
(*                                                                         *)
(* JavaScript runs one job at a time; an async function runs atomically    *)
(* from one await to the next.  Every action below is one such run.        *)
(***************************************************************************)
EXTENDS Integers, Sequences, FiniteSets, TLC

\* ---------------------------------------------------------------- bounds
NumCallers == 2          \* concurrent callers of one AuthManager
MaxEpisodes == 2         \* refreshAuthToken() invocations explored
MaxTicks == 1            \* clock advances explored
NumRequests == 1         \* ApiClient.request() invocations explored
MaxDays == 1             \* cache lifetimes the clock runs through

\* ------------------------------------------------------ program constants
bufferSeconds == 60      \* authManager.ts:60
MsPerSecond == 1000      \* authManager.ts:63  "* 1000"
CACHE_TTL_MS == 24 * 60 * 60 * 1000   \* signature.ts:7
DefaultTimeout == 5000   \* signature.ts:119  "config.timeout ?? 5000"

\* ------------------------------------------------------------- input sets
Managers == {1, 2}
Callers == 1..NumCallers
Episodes == 1..MaxEpisodes
Addresses == {"0xA", "0xB"}
NoSigner == "undefined"
IssuedToken(e) == [jwt |-> e]        \* the server issues a new token each time
OldToken == [jwt |-> 0]              \* a token issued in an earlier session
ExpiresInValues == {60, 61, 3600}    \* AuthResponse.expiresIn, seconds
IVs == {1}                           \* crypto.getRandomValues outcomes
Requests == 1..NumRequests

VARIABLES
  hasWindow,        \* typeof window !== "undefined"
  hasLocalStorage,  \* typeof localStorage !== "undefined"
  localStorage,     \* the item stored under STORAGE_KEY
  storageOps,       \* per manager: calls of getItem / setItem / removeItem
  now,              \* Date.now()
  mstate,           \* per manager: "none" | "loading" | "ready"
  signer,           \* per manager: this.signer (its address) or NoSigner
  auth,             \* per manager: this.auth
  refreshingToken,  \* per manager: this.refreshingToken (0 = null)
  loadData,         \* per manager: encryptedData read by loadPersistedAuth
  refresh,          \* per episode: one invocation of refreshAuthToken()
  nextEp,           \* next unused episode
  caller,           \* per caller: position in ensureAuthenticated()
  observed,         \* what the latest call returned to its caller
  config,           \* the Merchant's config (its signer)
  authManager,      \* the Merchant's this.authManager (0 = undefined)
  call,             \* per caller: position in createPayment / queryPayments
  cachedOperatorAddress,  \* signature.ts: the cached operator (Null: none)
  lastFetchTime,    \* signature.ts: when the cached operator was fetched
  verify,           \* per caller: position in verifySignature()
  timeout,          \* ApiClient: this.timeout, ms
  request,          \* per slot: one invocation of ApiClient.request()
  thrown,           \* per episode: what refreshAuthToken() rejected with
                    \* (followed by the steps of an ApiClient's refresh)
  cachedTokenList,  \* token.ts: the cached token list ("null": none)
  tokenFetchTime,   \* token.ts: lastFetchTime
  tokenCall,        \* per caller: position in getTokenList()
  cachedTokenMap,   \* token.ts: tokens read from their contracts
  lookup            \* per caller: position in getTokenBySymbol / ByAddress

vars == <<hasWindow, hasLocalStorage, localStorage, storageOps, now, mstate,
          signer, auth, refreshingToken, loadData, refresh, nextEp, caller,
          observed, config, authManager, call, cachedOperatorAddress,
          lastFetchTime, verify, timeout, request, thrown, cachedTokenList,
          tokenFetchTime, tokenCall, cachedTokenMap, lookup>>

\* One AuthManager, its environment and its callers, without the clock.
authVars ==
  <<hasWindow, hasLocalStorage, localStorage, storageOps, mstate, signer,
    auth, refreshingToken, loadData, refresh, nextEp, caller, observed>>
merchantVars == <<config, authManager, call>>
signatureVars == <<cachedOperatorAddress, lastFetchTime, verify>>
apiVars == <<timeout, request, thrown>>
tokenVars ==
  <<cachedTokenList, tokenFetchTime, tokenCall, cachedTokenMap, lookup>>
\* Everything outside one AuthManager and its callers.
clientVars == <<merchantVars, signatureVars, apiVars, tokenVars>>

\* ------------------------------------------------------------ data model
\* types.ts Auth; NoAuth is `undefined`.
NoAuth == [held |-> FALSE]
Auth(token, expiredAt) == [held |-> TRUE, token |-> token, expiredAt |-> expiredAt]
Undefined == [undefined |-> TRUE]

STORAGE_KEY == "zkpay_auth"

\* A stored string is the sequence of its ':'-separated fields
\* (String.prototype.split(":")); NoItem is getItem() === null.
NoItem == <<>>
EmptyString == << [text |-> ""] >>

\* An isBrowser that tests localStorage only.
isBrowser_IgnoresWindow == hasLocalStorage

\* Lines 7-8.
isBrowser == hasWindow /\ hasLocalStorage

\* utils: a byte array rendered as lower-case hex, and read back.  Text that
\* is not hex reads back as zero bytes (parseInt gives NaN, stored as 0).
arrayBufferToHex(buffer) == [text |-> "hex", bytes |-> buffer]
ZeroBytes == [zero |-> TRUE]
hexToUint8Array(hex) ==
  IF "bytes" \in DOMAIN hex THEN hex.bytes ELSE ZeroBytes

\* PBKDF2(address, salt(address)) -> AES-GCM key: one key per address.
deriveSecretKey(address) == [pbkdf2 |-> address]

\* JSON.stringify / JSON.parse of an Auth.
JSONstringify(a) == [json |-> a]
JSONparseOk(text) == "json" \in DOMAIN text
JSONparse(text) == text.json

\* AES-GCM: the ciphertext authenticates key and iv.
AesGcmEncrypt(key, iv, plaintext) == [key |-> key, iv |-> iv, plain |-> plaintext]

\* A cipher that decrypts under any key.
AesGcmDecryptOk_AnyKey(key, iv, data) ==
  /\ "plain" \in DOMAIN data
  /\ data.iv = iv

AesGcmDecryptOk(key, iv, data) ==
  /\ "plain" \in DOMAIN data
  /\ data.key = key
  /\ data.iv = iv

\* A record written with another iv than the one used to encrypt.
CipherString_WrongIv(address, iv, plaintext) ==
  << arrayBufferToHex([iv |-> 0]),
     arrayBufferToHex(AesGcmEncrypt(deriveSecretKey(address), [iv |-> iv],
                                    plaintext)) >>

\* `${ivHex}:${encryptedHex}` for a plaintext encrypted under address's key.
CipherString(address, iv, plaintext) ==
  << arrayBufferToHex([iv |-> iv]),
     arrayBufferToHex(AesGcmEncrypt(deriveSecretKey(address), [iv |-> iv],
                                    plaintext)) >>

\* The string persistAuth writes.
PersistedString(address, iv, a) == CipherString(address, iv, JSONstringify(a))

\* Items a previous session may have left in storage.
ValidItem == PersistedString("0xA", 1, Auth(OldToken, MsPerSecond))
InitialItems ==
  {NoItem, EmptyString, << [text |-> "invalid-data"] >>, ValidItem,
   PersistedString("0xA", 1, Auth(OldToken, 0)),
   CipherString("0xA", 1, [text |-> "not json"])}

NoOps == [getItem |-> 0, setItem |-> 0, removeItem |-> 0]

\* An episode that has not been started.  persist is how persistAuth() ended:
\* "skipped" (line 109), "written", or "failed" (the warning of line 124).
\* refreshAuthToken's locals before they are assigned: the challenge
\* (`message`) and the body handed to apiClient.post.
NoMessage == [unset |-> "message"]
NoBody == [unset |-> "body"]

NoRefresh ==
  [pc |-> "none", mgr |-> 0, promise |-> "none", signCalls |-> 0,
   postCalls |-> 0, before |-> NoAuth, cred |-> NoAuth,
   starterOutcome |-> "none", plain |-> NoAuth, persist |-> "none",
   message |-> NoMessage, body |-> NoBody]

IdleCaller == [pc |-> "idle", mgr |-> 0, ep |-> 0]

\* What a caller last observed: an ensureAuthenticated() call settling (op is
\* the path it took: "nosigner", "fresh", "joined" or "started"; result is
\* "resolved" or "rejected"), or getAuthToken() returning (result is the
\* token or Undefined).
NoReturn == [op |-> "none", mgr |-> 0, result |-> "none"]

\* AuthManager.create() resolving with the manager; item is what
\* loadPersistedAuth read from storage and path the way it went: "skipped" (line 77), "absent" (line 81),
\* "installed" (line 98), "expired" (line 100), or the catch block of lines
\* 102-105 after "malformed" (line 85), "nokey" (deriveSecretKey rejected),
\* "undecryptable" or "unparseable".
Created(m, path, item) ==
  [op |-> "create", mgr |-> m, result |-> "resolved", path |-> path,
   item |-> item]

\* A Merchant call that has not been made.  While a call is under way, mgr is
\* its authManager, ep the refresh its ensureAuthenticated() awaited (0: it
\* returned at once) and, once its /v1/channels request has been handed to
\* apiClient, authorization that request's header (Undefined: no header).
\* currency and tokenAddress are those of createPayment's params ("": not
\* given), items the payments of the response still to be normalized.
IdleCall ==
  [op |-> "none", pc |-> "idle", mgr |-> 0, ep |-> 0,
   authorization |-> Undefined, currency |-> "", tokenAddress |-> "",
   metadata |-> "object", items |-> <<>>]

\* A Merchant on which nothing has been called.
NewMerchant(s) ==
  /\ config = [signer |-> s]
  /\ authManager = 0
  /\ call = [c \in Callers |-> IdleCall]

\* signature.ts lines 5-6: nothing cached, and no verifySignature() call
\* under way.
\* In a verifySignature() call, now is the Date.now() read by
\* getOperatorAddress, fetch how its fetch went ("none": not made, "pending",
\* "ok", "failed"), address the operator address it returned, message what
\* was passed to verifyMessage and result what the call settled with.
Null == [null |-> TRUE]
NoAddress == "null"
NoPayload == [entries |-> <<>>, circular |-> FALSE]
IdleVerify ==
  [pc |-> "idle", now |-> 0, payload |-> NoPayload, fetch |-> "none",
   address |-> NoAddress, message |-> Null, result |-> "none"]
NewSignatureModule ==
  /\ cachedOperatorAddress = NoAddress
  /\ lastFetchTime = 0
  /\ verify = [c \in Callers |-> IdleVerify]

\* An ApiClient constructed with timeout t on which nothing has been
\* requested.  In a request, ep is the refresh whose POST /v1/auth it is (0:
\* none), timer the timeout set on line 136 ("armed", "fired" once its
\* callback has run, "cleared" after clearTimeout), aborted whether
\* controller.abort() was called, and outcome what the promise returned by
\* request() settled with.
NoOutcome == [kind |-> "none"]
IdleRequest ==
  [pc |-> "idle", ep |-> 0, timer |-> "none", aborted |-> FALSE,
   response |-> Null, outcome |-> NoOutcome]
NewApiClient(t) ==
  /\ timeout = t
  /\ request = [r \in Requests |-> IdleRequest]
  /\ thrown = [e \in Episodes |-> Null]

InitAuthManager ==
  /\ hasWindow \in BOOLEAN
  /\ hasLocalStorage \in (IF hasWindow THEN BOOLEAN ELSE {TRUE})
  /\ localStorage \in (IF ~hasLocalStorage THEN {NoItem}
                       ELSE IF ~hasWindow THEN {ValidItem}
                       ELSE InitialItems)
  /\ storageOps = [m \in Managers |-> NoOps]
  /\ now = 0
  /\ mstate = [m \in Managers |-> "none"]
  /\ signer = [m \in Managers |-> NoSigner]
  /\ auth = [m \in Managers |-> NoAuth]
  /\ refreshingToken = [m \in Managers |-> 0]
  /\ loadData = [m \in Managers |-> NoItem]
  /\ refresh = [e \in Episodes |-> NoRefresh]
  /\ nextEp = 1
  /\ caller = [c \in Callers |-> IdleCaller]
  /\ observed = NoReturn

\* token.ts as loaded (lines 26-27): nothing cached, no call made.  In a
\* call, now is the Date.now() of line 32, fetched whether the call has
\* called fetch and result what the call settled with.
NoList == "null"
IdleTokenCall ==
  [pc |-> "idle", now |-> 0, fetched |-> FALSE, result |-> NoOutcome]
\* A lookup (getTokenBySymbol or getTokenByAddress) that has not been made;
\* key is the symbol or address looked up, result what it settled with.
IdleLookup ==
  [pc |-> "idle", kind |-> "none", key |-> "", result |-> NoOutcome]
NewTokenModule ==
  /\ cachedTokenList = NoList
  /\ tokenFetchTime = 0
  /\ tokenCall = [c \in Callers |-> IdleTokenCall]
  /\ cachedTokenMap = {}
  /\ lookup = [c \in Callers |-> IdleLookup]

Init ==
  /\ InitAuthManager
  /\ NewMerchant(NoSigner)
  /\ NewSignatureModule
  /\ NewApiClient(DefaultTimeout)
  /\ NewTokenModule

\* ------------------------------------------------------------- helpers
Count(m, op) == [storageOps EXCEPT ![m][op] = @ + 1]

Settled(e) == refresh[e].promise \in {"fulfilled", "rejected"}

\* `this.auth && this.auth.expiredAt > Date.now()`
AuthValid(m) == auth[m] # NoAuth /\ auth[m].expiredAt > now

Return(m, op, result) == [op |-> op, mgr |-> m, result |-> result]

Outcome(e) ==
  IF refresh[e].promise = "fulfilled" THEN "resolved" ELSE "rejected"

\* Promise reactions are microtasks: once a refresh promise has settled, the
\* continuations of the callers awaiting it run before the event loop
\* delivers another I/O completion (signer, network, crypto).
ReactionsQueued ==
  \E c \in Callers :
    \/ caller[c].pc # "idle" /\ Settled(caller[c].ep)
    \/ call[c].pc = "creating" /\ mstate[call[c].mgr] = "ready"
    \/ call[c].pc \in {"manager", "ensured", "ensureFailed"}
    \/ call[c].pc \in {"metadata", "normalize"} /\ lookup[c].pc = "idle"
    \/ lookup[c].pc = "list" /\ tokenCall[c].pc = "idle"

\* --------------------------------------------------------------- clock
Tick ==
  /\ now < MaxTicks * MsPerSecond
  /\ now' = now + MsPerSecond
  /\ UNCHANGED <<hasWindow, hasLocalStorage, localStorage, storageOps, mstate,
                 signer, auth, refreshingToken, loadData, refresh, nextEp,
                 caller, observed>>

\* --------------------------------------------- create / loadPersistedAuth
\* `const [ivHex, encryptedHex] = encryptedData.split(":")` followed by
\* `!ivHex || !encryptedHex`.
FieldMissing(f) == "bytes" \notin DOMAIN f /\ f.text = ""
InvalidFormat(data) ==
  \/ Len(data) < 2
  \/ FieldMissing(data[1])
  \/ FieldMissing(data[2])

\* The constructor, then loadPersistedAuth up to its first await
\* (deriveSecretKey); skip is its first line's test.
Construct(m, s, skip) ==
  /\ mstate[m] = "none"
  /\ signer' = [signer EXCEPT ![m] = s]
  /\ UNCHANGED <<hasWindow, hasLocalStorage, now, auth, refreshingToken,
                 refresh, nextEp, caller>>
  /\ IF skip
       THEN /\ mstate' = [mstate EXCEPT ![m] = "ready"]
            /\ observed' = Created(m, "skipped", NoItem)
            /\ UNCHANGED <<localStorage, storageOps, loadData>>
       ELSE IF localStorage = NoItem \/ localStorage = EmptyString
         THEN /\ mstate' = [mstate EXCEPT ![m] = "ready"]
              /\ observed' = Created(m, "absent", localStorage)
              /\ storageOps' = Count(m, "getItem")
              /\ UNCHANGED <<localStorage, loadData>>
         ELSE IF InvalidFormat(localStorage)
           THEN /\ mstate' = [mstate EXCEPT ![m] = "ready"]
                /\ observed' = Created(m, "malformed", localStorage)
                /\ storageOps' =
                     [storageOps EXCEPT ![m].getItem = @ + 1,
                                        ![m].removeItem = @ + 1]
                /\ localStorage' = NoItem
                /\ UNCHANGED loadData
           ELSE /\ mstate' = [mstate EXCEPT ![m] = "loading"]
                /\ storageOps' = Count(m, "getItem")
                /\ loadData' = [loadData EXCEPT ![m] = localStorage]
                /\ UNCHANGED <<localStorage, observed>>

\* A loadPersistedAuth that reads storage also when no signer is configured.
create_IgnoresMissingSigner(m, s) == Construct(m, s, ~isBrowser)

\* AuthManager.create(apiClient, s).
create(m, s) == Construct(m, s, ~isBrowser \/ s = NoSigner)

\* Lines 88-96 on a record data read by a manager whose signer is address:
\* does it decrypt, does the plaintext parse, and the Auth it yields.
Decrypts(data, address) ==
  AesGcmDecryptOk(deriveSecretKey(address), hexToUint8Array(data[1]),
                  hexToUint8Array(data[2]))
Parses(data, address) ==
  Decrypts(data, address) /\ JSONparseOk(hexToUint8Array(data[2]).plain)
PersistedAuth(data, address) ==
  IF Parses(data, address)
    THEN JSONparse(hexToUint8Array(data[2]).plain)
    ELSE NoAuth

\* `auth.expiredAt > Date.now()` on line 97.
Unexpired(a) == a # NoAuth /\ a.expiredAt > now

\* loadPersistedAuth after deriveSecretKey and crypto.subtle.decrypt have
\* settled; keyOk = FALSE is signer.getAddress() rejecting.  install is the
\* test of line 97 and clearBad whether the catch block removes the item.
Load(m, keyOk, install, clearBad) ==
  LET data == loadData[m]
      a == PersistedAuth(data, signer[m])
      path == IF ~keyOk THEN "nokey"
              ELSE IF ~Decrypts(data, signer[m]) THEN "undecryptable"
              ELSE IF ~Parses(data, signer[m]) THEN "unparseable"
              ELSE IF install THEN "installed" ELSE "expired"
      remove == IF path = "expired" THEN TRUE
                ELSE IF path = "installed" THEN FALSE ELSE clearBad
  IN /\ mstate[m] = "loading"
     /\ ~ReactionsQueued
     /\ mstate' = [mstate EXCEPT ![m] = "ready"]
     /\ loadData' = [loadData EXCEPT ![m] = NoItem]
     /\ observed' = Created(m, path, data)
     /\ auth' = [auth EXCEPT ![m] = IF path = "installed" THEN a ELSE @]
     /\ localStorage' = IF remove THEN NoItem ELSE localStorage
     /\ storageOps' = IF remove THEN Count(m, "removeItem") ELSE storageOps
     /\ UNCHANGED <<hasWindow, hasLocalStorage, now, signer, refreshingToken,
                    refresh, nextEp, caller>>

\* A loadPersistedAuth whose catch block leaves the item in storage.
loadPersistedAuth_KeepsBadRecord(m, keyOk) ==
  Load(m, keyOk, Unexpired(PersistedAuth(loadData[m], signer[m])), FALSE)

\* A loadPersistedAuth without the expiry test of line 97.
loadPersistedAuth_InstallsExpired(m, keyOk) ==
  Load(m, keyOk, TRUE, TRUE)

\* loadPersistedAuth from line 90 on.
loadPersistedAuth(m, keyOk) ==
  Load(m, keyOk, Unexpired(PersistedAuth(loadData[m], signer[m])), TRUE)

\* ------------------------------------------------- ensureAuthenticated()
\* refreshAuthToken() up to its first await: the returned promise and the
\* pending signer.getAddress() call.
refreshAuthToken(m) ==
  IF signer[m] = NoSigner
    THEN [NoRefresh EXCEPT !.pc = "done", !.mgr = m, !.promise = "rejected"]
    ELSE [NoRefresh EXCEPT !.pc = "getAddress", !.mgr = m,
                           !.promise = "pending", !.before = auth[m]]

\* `return` on line 31 or 32: the call resolves at once.
ReturnAtOnce(c, m, path) ==
  /\ observed' = Return(m, path, "resolved")
  /\ UNCHANGED <<refreshingToken, refresh, nextEp, caller>>

\* `return this.refreshingToken`: the call settles when that promise does.
JoinRefresh(c, m) ==
  /\ caller' = [caller EXCEPT
                  ![c] = [pc |-> "joined", mgr |-> m,
                          ep |-> refreshingToken[m]]]
  /\ UNCHANGED <<refreshingToken, refresh, nextEp, observed>>

\* A start that leaves this.refreshingToken unset: the refresh runs, but the
\* next caller finds no refresh in flight.
StartRefresh_NoMarker(c, m) ==
  /\ nextEp <= MaxEpisodes
  /\ refresh' = [refresh EXCEPT ![nextEp] = refreshAuthToken(m)]
  /\ nextEp' = nextEp + 1
  /\ caller' = [caller EXCEPT
                  ![c] = [pc |-> "started", mgr |-> m, ep |-> nextEp]]
  /\ UNCHANGED <<refreshingToken, observed>>

\* `this.refreshingToken = this.refreshAuthToken()` and the await.
StartRefresh(c, m) ==
  /\ nextEp <= MaxEpisodes
  /\ refreshingToken' = [refreshingToken EXCEPT ![m] = nextEp]
  /\ refresh' = [refresh EXCEPT ![nextEp] = refreshAuthToken(m)]
  /\ nextEp' = nextEp + 1
  /\ caller' = [caller EXCEPT
                  ![c] = [pc |-> "started", mgr |-> m, ep |-> nextEp]]
  /\ UNCHANGED observed

\* The synchronous part of one ensureAuthenticated() call by caller c; the
\* three tests of lines 31-33 are noSigner, fresh and inFlight.
Ensure(c, m, noSigner, fresh, inFlight) ==
  /\ mstate[m] = "ready"
  /\ caller[c].pc = "idle"
  /\ UNCHANGED <<hasWindow, hasLocalStorage, localStorage, storageOps, now,
                 mstate, signer, auth, loadData>>
  /\ IF noSigner THEN ReturnAtOnce(c, m, "nosigner")
     ELSE IF fresh THEN ReturnAtOnce(c, m, "fresh")
     ELSE IF inFlight THEN JoinRefresh(c, m)
     ELSE StartRefresh(c, m)

\* ensureAuthenticated without line 33: every call starts its own refresh.
ensureAuthenticated_NoDedup(c, m) ==
  Ensure(c, m, signer[m] = NoSigner, AuthValid(m), FALSE)

\* ensureAuthenticated with line 33 as `if (this.refreshingToken) return;`.
ensureAuthenticated_JoinWithoutAwait(c, m) ==
  /\ mstate[m] = "ready"
  /\ caller[c].pc = "idle"
  /\ UNCHANGED <<hasWindow, hasLocalStorage, localStorage, storageOps, now,
                 mstate, signer, auth, loadData>>
  /\ IF signer[m] = NoSigner THEN ReturnAtOnce(c, m, "nosigner")
     ELSE IF AuthValid(m) THEN ReturnAtOnce(c, m, "fresh")
     ELSE IF refreshingToken[m] # 0 THEN ReturnAtOnce(c, m, "joined")
     ELSE StartRefresh(c, m)

\* ensureAuthenticated with the comparison of line 32 inverted.
ensureAuthenticated_InvertedExpiry(c, m) ==
  Ensure(c, m, signer[m] = NoSigner,
         auth[m] # NoAuth /\ auth[m].expiredAt < now, refreshingToken[m] # 0)

ensureAuthenticated(c, m) ==
  Ensure(c, m, signer[m] = NoSigner, AuthValid(m), refreshingToken[m] # 0)

\* The resumption with `this.refreshingToken = null` after the await instead
\* of in a finally block: a rejection skips it.
StarterResume_NoFinally(c) ==
  LET e == caller[c].ep
      m == caller[c].mgr
  IN /\ caller[c].pc = "started"
     /\ Settled(e)
     /\ refreshingToken' =
          [refreshingToken EXCEPT
             ![m] = IF refresh[e].promise = "fulfilled" THEN 0 ELSE @]
     /\ refresh' = [refresh EXCEPT
                       ![e] = [NoRefresh EXCEPT
                                 !.pc = "done", !.mgr = m,
                                 !.promise = refresh[e].promise,
                                 !.starterOutcome = Outcome(e),
                                 !.persist = refresh[e].persist]]
     /\ caller' = [caller EXCEPT ![c] = IdleCaller]
     /\ observed' = Return(m, "started", Outcome(e))
     /\ UNCHANGED <<hasWindow, hasLocalStorage, localStorage, storageOps,
                    now, mstate, signer, auth, loadData, nextEp>>

\* The caller that started episode caller[c].ep resumes after
\* `await this.refreshingToken`: the finally block, then return or rethrow.
StarterResume(c) ==
  LET e == caller[c].ep
      m == caller[c].mgr
  IN /\ caller[c].pc = "started"
     /\ Settled(e)
     /\ refreshingToken' = [refreshingToken EXCEPT ![m] = 0]
     /\ refresh' = [refresh EXCEPT
                       ![e] = [NoRefresh EXCEPT
                                 !.pc = "done", !.mgr = m,
                                 !.promise = refresh[e].promise,
                                 !.starterOutcome = Outcome(e),
                                 !.persist = refresh[e].persist]]
     /\ caller' = [caller EXCEPT ![c] = IdleCaller]
     /\ observed' = Return(m, "started", Outcome(e))
     /\ UNCHANGED <<hasWindow, hasLocalStorage, localStorage, storageOps,
                    now, mstate, signer, auth, loadData, nextEp>>

\* A joined call that resumes only when the refresh it joined succeeded.
JoinerResume_OnlyOnSuccess(c) ==
  LET e == caller[c].ep
      m == caller[c].mgr
  IN /\ caller[c].pc = "joined"
     /\ refresh[e].promise = "fulfilled"
     /\ refresh[e].starterOutcome # "none"
     /\ caller' = [caller EXCEPT ![c] = IdleCaller]
     /\ observed' = Return(m, "joined", Outcome(e))
     /\ UNCHANGED <<hasWindow, hasLocalStorage, localStorage, storageOps,
                    now, mstate, signer, auth, refreshingToken, loadData,
                    refresh, nextEp>>

\* A caller that took `return this.refreshingToken` settles with that
\* promise.  Its reaction is queued behind the starter's, which was
\* registered first, so it runs after the starter's finally block.
JoinerResume(c) ==
  LET e == caller[c].ep
      m == caller[c].mgr
  IN /\ caller[c].pc = "joined"
     /\ Settled(e)
     /\ refresh[e].starterOutcome # "none"
     /\ caller' = [caller EXCEPT ![c] = IdleCaller]
     /\ observed' = Return(m, "joined", Outcome(e))
     /\ UNCHANGED <<hasWindow, hasLocalStorage, localStorage, storageOps,
                    now, mstate, signer, auth, refreshingToken, loadData,
                    refresh, nextEp>>

\* `this.auth?.token`
TokenOf(a) == IF a = NoAuth THEN Undefined ELSE a.token
AuthToken(m) == TokenOf(auth[m])

\* A getAuthToken that forgets a Credential once it has expired.
getAuthToken_DropsExpired(m) ==
  /\ mstate[m] = "ready"
  /\ observed' = Return(m, "getAuthToken",
                        IF AuthValid(m) THEN auth[m].token ELSE Undefined)
  /\ auth' = [auth EXCEPT ![m] = IF AuthValid(m) THEN @ ELSE NoAuth]
  /\ UNCHANGED <<hasWindow, hasLocalStorage, localStorage, storageOps, now,
                 mstate, signer, refreshingToken, loadData, refresh,
                 nextEp, caller>>

\* getAuthToken().
getAuthToken(m) ==
  /\ mstate[m] = "ready"
  /\ observed' = Return(m, "getAuthToken", AuthToken(m))
  /\ UNCHANGED <<hasWindow, hasLocalStorage, localStorage, storageOps, now,
                 mstate, signer, auth, refreshingToken, loadData, refresh,
                 nextEp, caller>>

\* ---------------------------------------------------- refreshAuthToken()
\* The catch block: `throw new Error("Authentication failed...")`.
Reject(e) ==
  [refresh EXCEPT ![e].pc = "done", ![e].promise = "rejected",
                  ![e].message = NoMessage, ![e].body = NoBody]
Fulfil(e, how) ==
  [refresh EXCEPT ![e].pc = "done", ![e].promise = "fulfilled",
                  ![e].persist = how,
                  ![e].message = NoMessage, ![e].body = NoBody]

\* prepareSiweMessage (lines 166-173): the challenge text, kept as its
\* interpolated parts.  uri is the page's origin in a browser and
\* "https://zkpay.cc" elsewhere; domain is uri without its scheme; nonce is
\* what Math.random() gave and issuedAt the clock's reading.
Origin == <<"https://", "testapp.com">>
DefaultUri == <<"https://", "zkpay.cc">>
StripScheme(uri) ==
  IF Len(uri) > 0 /\ Head(uri) \in {"http://", "https://"}
    THEN Tail(uri) ELSE uri
Nonces == {"k3j9x", "q7w2m"}
prepareSiweMessage(address, nonce) ==
  LET uri == IF isBrowser THEN Origin ELSE DefaultUri
  IN [domain |-> StripScheme(uri), address |-> address, uri |-> uri,
      version |-> 1, chainId |-> 1, nonce |-> nonce, issuedAt |-> now]

\* What signer.signMessage(message) resolves with for the signer at address.
Signature(address, message) == [signedBy |-> address, over |-> message]

\* The body of POST /v1/auth (lines 55-58).
AuthBody(message, signature) == [message |-> message, signature |-> signature]

\* A refresh that forgets the held Credential when the signer's address
\* cannot be read.
RefreshGotAddress_ForgetsOnReject(e, ok) ==
  /\ refresh[e].pc = "getAddress"
  /\ ~ReactionsQueued
  /\ IF ok
       THEN /\ \E nonce \in Nonces :
                 refresh' =
                   [refresh EXCEPT
                      ![e].pc = "signMessage",
                      ![e].signCalls = @ + 1,
                      ![e].message =
                        prepareSiweMessage(signer[refresh[e].mgr], nonce)]
            /\ UNCHANGED auth
       ELSE /\ refresh' = Reject(e)
            /\ auth' = [auth EXCEPT ![refresh[e].mgr] = NoAuth]
  /\ UNCHANGED <<hasWindow, hasLocalStorage, localStorage, storageOps, now,
                 mstate, signer, refreshingToken, loadData, nextEp,
                 caller, observed>>

\* `await this.signer.getAddress()` settles; on success the challenge is
\* built and signer.signMessage(message) is called.
RefreshGotAddress(e, ok) ==
  /\ refresh[e].pc = "getAddress"
  /\ ~ReactionsQueued
  /\ IF ok
       THEN \E nonce \in Nonces :
              refresh' =
                [refresh EXCEPT
                   ![e].pc = "signMessage",
                   ![e].signCalls = @ + 1,
                   ![e].message =
                     prepareSiweMessage(signer[refresh[e].mgr], nonce)]
       ELSE refresh' = Reject(e)
  /\ UNCHANGED <<hasWindow, hasLocalStorage, localStorage, storageOps, now,
                 mstate, signer, auth, refreshingToken, loadData, nextEp,
                 caller, observed>>

\* A refresh that asks the signer once more after a rejected signature.
RefreshSigned_Retries(e, ok) ==
  /\ refresh[e].pc = "signMessage"
  /\ ~ReactionsQueued
  /\ refresh' = IF ok
                  THEN [refresh EXCEPT
                          ![e].pc = "post",
                          ![e].postCalls = @ + 1,
                          ![e].message = NoMessage,
                          ![e].body =
                            AuthBody(refresh[e].message,
                                     Signature(signer[refresh[e].mgr],
                                               refresh[e].message))]
                  ELSE IF refresh[e].signCalls < 2
                    THEN [refresh EXCEPT ![e].signCalls = @ + 1]
                    ELSE Reject(e)
  /\ UNCHANGED <<hasWindow, hasLocalStorage, localStorage, storageOps, now,
                 mstate, signer, auth, refreshingToken, loadData, nextEp,
                 caller, observed>>

\* A refresh that builds the challenge again when it posts: the body carries
\* a challenge dated at posting time with the signature of the earlier one.
RefreshSigned_PostsRebuiltChallenge(e, ok) ==
  /\ refresh[e].pc = "signMessage"
  /\ ~ReactionsQueued
  /\ refresh' = IF ok
                  THEN [refresh EXCEPT
                          ![e].pc = "post",
                          ![e].postCalls = @ + 1,
                          ![e].message = NoMessage,
                          ![e].body =
                            AuthBody([refresh[e].message
                                        EXCEPT !.issuedAt = now],
                                     Signature(signer[refresh[e].mgr],
                                               refresh[e].message))]
                  ELSE Reject(e)
  /\ UNCHANGED <<hasWindow, hasLocalStorage, localStorage, storageOps, now,
                 mstate, signer, auth, refreshingToken, loadData, nextEp,
                 caller, observed>>

\* A refresh whose catch block removes the persisted record when the signer
\* refuses to sign.
RefreshSigned_RemovesRecordOnReject(e, ok) ==
  /\ refresh[e].pc = "signMessage"
  /\ ~ReactionsQueued
  /\ IF ok
       THEN /\ refresh' =
                 [refresh EXCEPT
                    ![e].pc = "post",
                    ![e].postCalls = @ + 1,
                    ![e].message = NoMessage,
                    ![e].body =
                      AuthBody(refresh[e].message,
                               Signature(signer[refresh[e].mgr],
                                         refresh[e].message))]
            /\ UNCHANGED <<localStorage, storageOps>>
       ELSE /\ refresh' = Reject(e)
            /\ localStorage' = NoItem
            /\ storageOps' = Count(refresh[e].mgr, "removeItem")
  /\ UNCHANGED <<hasWindow, hasLocalStorage, now, mstate, signer, auth,
                 refreshingToken, loadData, nextEp, caller, observed>>

\* `await this.signer.signMessage(message)` settles; on success
\* apiClient.post("/v1/auth", {message, signature}) is called.
RefreshSigned(e, ok) ==
  /\ refresh[e].pc = "signMessage"
  /\ ~ReactionsQueued
  /\ refresh' = IF ok
                  THEN [refresh EXCEPT
                          ![e].pc = "post",
                          ![e].postCalls = @ + 1,
                          ![e].message = NoMessage,
                          ![e].body =
                            AuthBody(refresh[e].message,
                                     Signature(signer[refresh[e].mgr],
                                               refresh[e].message))]
                  ELSE Reject(e)
  /\ UNCHANGED <<hasWindow, hasLocalStorage, localStorage, storageOps, now,
                 mstate, signer, auth, refreshingToken, loadData, nextEp,
                 caller, observed>>

\* The exchange settles: on success this.auth becomes onSuccess and
\* persistAuth() runs up to its first await; on failure the catch block runs
\* with this.auth as onFailure.
Exchanged(e, ok, a, onSuccess, onFailure) ==
  LET m == refresh[e].mgr
  IN /\ refresh[e].pc = "post"
     /\ ~ReactionsQueued
     /\ IF ok
          THEN /\ auth' = [auth EXCEPT ![m] = onSuccess]
               /\ refresh' =
                    [refresh EXCEPT
                       ![e].cred = a,
                       ![e].body = NoBody,
                       ![e].pc = IF ~isBrowser \/ signer[m] = NoSigner
                                   THEN "persistSkip" ELSE "persistKey"]
          ELSE /\ refresh' = Reject(e)
               /\ auth' = [auth EXCEPT ![m] = onFailure]
     /\ UNCHANGED <<hasWindow, hasLocalStorage, localStorage, storageOps,
                    now, mstate, signer, refreshingToken, loadData, nextEp,
                    caller, observed>>

\* A Credential dated by the server-reported lifetime, without the buffer.
NewAuth_NoBuffer(token, expiresIn) ==
  Auth(token, now + expiresIn * MsPerSecond)

\* Lines 60-64: the Credential built from the response {token, expiresIn}.
NewAuth(token, expiresIn) ==
  Auth(token, now + (expiresIn - bufferSeconds) * MsPerSecond)

\* A refresh that assigns this.auth only when none is held (`??=`).
RefreshExchanged_KeepsHeld(e, ok, token, expiresIn) ==
  Exchanged(e, ok, NewAuth(token, expiresIn),
            IF auth[refresh[e].mgr] = NoAuth THEN NewAuth(token, expiresIn)
            ELSE auth[refresh[e].mgr],
            auth[refresh[e].mgr])

\* `await this.apiClient.post("/v1/auth", ...)` settles.
RefreshExchanged(e, ok, token, expiresIn) ==
  Exchanged(e, ok, NewAuth(token, expiresIn), NewAuth(token, expiresIn),
            auth[refresh[e].mgr])

\* persistAuth() returned at its first line; refreshAuthToken completes.
PersistSkipped(e) ==
  /\ refresh[e].pc = "persistSkip"
  /\ refresh' = Fulfil(e, "skipped")
  /\ UNCHANGED <<hasWindow, hasLocalStorage, localStorage, storageOps, now,
                 mstate, signer, auth, refreshingToken, loadData, nextEp,
                 caller, observed>>

\* A persistAuth whose catch block also forgets the Credential when the key
\* cannot be derived.
PersistKeyDerived_DropsOnFailure(e, ok) ==
  LET m == refresh[e].mgr
  IN /\ refresh[e].pc = "persistKey"
     /\ ~ReactionsQueued
     /\ refresh' = IF ok
                     THEN [refresh EXCEPT ![e].pc = "persistEncrypt",
                                          ![e].plain = auth[m]]
                     ELSE Fulfil(e, "failed")
     /\ auth' = IF ok THEN auth ELSE [auth EXCEPT ![m] = NoAuth]
     /\ UNCHANGED <<hasWindow, hasLocalStorage, localStorage, storageOps,
                    now, mstate, signer, refreshingToken, loadData,
                    nextEp, caller, observed>>

\* A persistAuth that encrypts the Credential held when the refresh began
\* instead of this.auth.
PersistKeyDerived_StoresPrevious(e, ok) ==
  LET m == refresh[e].mgr
  IN /\ refresh[e].pc = "persistKey"
     /\ ~ReactionsQueued
     /\ refresh' = IF ok
                     THEN [refresh EXCEPT ![e].pc = "persistEncrypt",
                                          ![e].plain = refresh[e].before]
                     ELSE Fulfil(e, "failed")
     /\ UNCHANGED <<hasWindow, hasLocalStorage, localStorage, storageOps,
                    now, mstate, signer, auth, refreshingToken, loadData,
                    nextEp, caller, observed>>

\* persistAuth: deriveSecretKey() settles; on success JSON.stringify(this.auth)
\* is handed to crypto.subtle.encrypt.  A failure is caught and logged.
PersistKeyDerived(e, ok) ==
  LET m == refresh[e].mgr
  IN /\ refresh[e].pc = "persistKey"
     /\ ~ReactionsQueued
     /\ refresh' = IF ok
                     THEN [refresh EXCEPT ![e].pc = "persistEncrypt",
                                          ![e].plain = auth[m]]
                     ELSE Fulfil(e, "failed")
     /\ UNCHANGED <<hasWindow, hasLocalStorage, localStorage, storageOps,
                    now, mstate, signer, auth, refreshingToken, loadData,
                    nextEp, caller, observed>>

\* persistAuth: encrypt settles and localStorage.setItem is called; writeOk =
\* FALSE is setItem throwing (QuotaExceededError).  onFailure is the episode
\* after persistAuth's catch block.
Persisted(e, iv, ok, writeOk, onFailure) ==
  LET m == refresh[e].mgr
  IN /\ refresh[e].pc = "persistEncrypt"
     /\ ~ReactionsQueued
     /\ refresh' = [(IF ok /\ writeOk THEN Fulfil(e, "written") ELSE onFailure)
                      EXCEPT ![e].plain = NoAuth]
     /\ IF ok
          THEN /\ storageOps' = Count(m, "setItem")
               /\ localStorage' =
                    IF writeOk
                      THEN PersistedString(signer[m], iv, refresh[e].plain)
                      ELSE localStorage
          ELSE UNCHANGED <<localStorage, storageOps>>
     /\ UNCHANGED <<hasWindow, hasLocalStorage, now, mstate, signer, auth,
                    refreshingToken, loadData, nextEp, caller, observed>>

\* A persistAuth without its try/catch: the error reaches refreshAuthToken's
\* catch block.
PersistEncrypted_Propagates(e, iv, ok, writeOk) ==
  Persisted(e, iv, ok, writeOk, [Reject(e) EXCEPT ![e].persist = "failed"])

\* persistAuth after crypto.subtle.encrypt has settled; a failure is caught
\* and logged (lines 123-131).
PersistEncrypted(e, iv, ok, writeOk) ==
  Persisted(e, iv, ok, writeOk, Fulfil(e, "failed"))

\* ------------------------------------------------------- verifySignature
\* The value stored under key in an object given as its entries in
\* insertion order.
ValueOf(entries, key) ==
  entries[CHOOSE i \in 1..Len(entries) : entries[i][1] = key][2]

\* The keys of the payloads, in the order of Array.prototype.sort().
SortedKeys == <<"amount", "currency">>

\* JSON.stringify(payload, Object.keys(payload).sort()): the entries in the
\* order of their keys.
StringifySorted(payload) ==
  LET keys == SelectSeq(SortedKeys,
                        LAMBDA k : \E i \in 1..Len(payload.entries) :
                                     payload.entries[i][1] = k)
  IN JSONstringify([i \in 1..Len(keys) |->
                      <<keys[i], ValueOf(payload.entries, keys[i])>>])

\* JSON.stringify(payload): the entries in insertion order.
Stringify(payload) == JSONstringify(payload.entries)

\* isAddress(value) of viem.
isAddress(value) == value \in {"0xOP1", "0xOP2"}

\* verifySignature goes on with what getOperatorAddress() returned: false
\* without an address (line 16) or when JSON.stringify throws (a circular
\* payload: the catch block of line 25), else verifyMessage is called.
GotOperator(c, v, address) ==
  IF address = NoAddress \/ v.payload.circular
    THEN [v EXCEPT !.pc = "idle", !.address = address, !.result = "false",
                   !.payload = NoPayload]
    ELSE [v EXCEPT !.pc = "verifyMessage", !.address = address,
                   !.message = Stringify(v.payload)]

\* verifySignature(payload, signature) up to its first I/O: getOperatorAddress
\* reads the clock and either returns the cached address (lines 40-42), on
\* which verifySignature goes on to verifyMessage, or calls fetch (line 45).
verifySignature(c, payload) ==
  /\ verify[c].pc = "idle"
  /\ LET v == [IdleVerify EXCEPT !.now = now, !.payload = payload]
     IN verify' =
          [verify EXCEPT
             ![c] = IF /\ cachedOperatorAddress # NoAddress
                       /\ now - lastFetchTime < CACHE_TTL_MS
                      THEN GotOperator(c, v, cachedOperatorAddress)
                      ELSE [v EXCEPT !.pc = "fetch", !.fetch = "pending"]]
  /\ UNCHANGED <<cachedOperatorAddress, lastFetchTime, now>>

\* The catch block of getOperatorAddress (lines 59-62) returning `fallback`.
FetchFailed(c, fallback) ==
  /\ verify' = [verify EXCEPT
                  ![c] = GotOperator(c, [verify[c] EXCEPT !.fetch = "failed"],
                                     fallback)]
  /\ UNCHANGED <<cachedOperatorAddress, lastFetchTime, now>>

\* A getOperatorAddress that gives up when the fetch fails.
OperatorFetched_NoFallback(c, outcome) ==
  /\ verify[c].pc = "fetch"
  /\ IF outcome = "ok"
       THEN /\ verify' = [verify EXCEPT ![c].pc = "json"]
            /\ UNCHANGED <<cachedOperatorAddress, lastFetchTime, now>>
       ELSE FetchFailed(c, NoAddress)

\* `await fetch(BASE_API_URL)` settles: with an ok response response.json()
\* is called; a rejection ("error") or another status ("notOk") is caught.
OperatorFetched(c, outcome) ==
  /\ verify[c].pc = "fetch"
  /\ IF outcome = "ok"
       THEN /\ verify' = [verify EXCEPT ![c].pc = "json"]
            /\ UNCHANGED <<cachedOperatorAddress, lastFetchTime, now>>
       ELSE FetchFailed(c, cachedOperatorAddress)

\* A getOperatorAddress without the validity test of lines 51-53: whatever
\* operator the response names is cached.
OperatorParsed_CachesAnyOperator(c, parsed, operator) ==
  /\ verify[c].pc = "json"
  /\ IF parsed
       THEN /\ cachedOperatorAddress' = operator
            /\ lastFetchTime' = verify[c].now
            /\ verify' = [verify EXCEPT
                            ![c] = GotOperator(c, [verify[c] EXCEPT
                                                     !.fetch = "ok"],
                                               operator)]
            /\ UNCHANGED now
       ELSE FetchFailed(c, cachedOperatorAddress)

\* `await response.json()` settles: it rejected (parsed = FALSE) or gave
\* data whose operator is `operator` ("": none).  A valid operator is cached
\* with the time read at the start of the call.
OperatorParsed(c, parsed, operator) ==
  /\ verify[c].pc = "json"
  /\ IF parsed /\ operator # "" /\ isAddress(operator)
       THEN /\ cachedOperatorAddress' = operator
            /\ lastFetchTime' = verify[c].now
            /\ verify' = [verify EXCEPT
                            ![c] = GotOperator(c, [verify[c] EXCEPT
                                                     !.fetch = "ok"],
                                               operator)]
            /\ UNCHANGED now
       ELSE FetchFailed(c, cachedOperatorAddress)

\* A verifySignature without its catch block.
MessageVerified_Propagates(c, outcome) ==
  /\ verify[c].pc = "verifyMessage"
  /\ verify' = [verify EXCEPT
                  ![c].pc = "idle", ![c].payload = NoPayload,
                  ![c].message = Null,
                  ![c].result = IF outcome = "throws" THEN "rejected"
                                ELSE outcome]
  /\ UNCHANGED <<cachedOperatorAddress, lastFetchTime, now>>

\* `await verifyMessage(...)` settles with "true" or "false", or throws and
\* the catch block of lines 25-28 returns false.
MessageVerified(c, outcome) ==
  /\ verify[c].pc = "verifyMessage"
  /\ verify' = [verify EXCEPT
                  ![c].pc = "idle", ![c].payload = NoPayload,
                  ![c].message = Null,
                  ![c].result = IF outcome = "throws" THEN "false"
                                ELSE outcome]
  /\ UNCHANGED <<cachedOperatorAddress, lastFetchTime, now>>

\* _resetCacheForTesting() (lines 31-34): the cache is emptied; calls under
\* way carry on.
resetCacheForTesting ==
  /\ cachedOperatorAddress' = NoAddress
  /\ lastFetchTime' = 0
  /\ UNCHANGED <<verify, now>>

\* The clock moves on to a later instant.
Elapse(t) ==
  /\ t > now
  /\ now' = t
  /\ UNCHANGED <<cachedOperatorAddress, lastFetchTime, verify>>

\* ------------------------------------------------------------- ApiClient
\* `config.timeout ?? 5000`; NoTimeout is an undefined config.timeout.
NoTimeout == 0 - 1
ClientTimeout(configured) ==
  IF configured = NoTimeout THEN DefaultTimeout ELSE configured

\* Errors.  A message is a record so that `Request timed out after ${ms}ms`
\* keeps its number; NoStatus is an undefined statusCode.
Text(str) == [text |-> str]
NoStatus == 0
ApiError(message, statusCode, errorType) ==
  [name |-> "ApiError", message |-> message, statusCode |-> statusCode,
   errorType |-> errorType]
Error(name, message) == [name |-> name, message |-> message]
NotAnError == [name |-> "thrown value", message |-> Text("")]
TimedOut(ms) == [text |-> "Request timed out after ms", ms |-> ms]

\* `a || b` on messages, strings and status codes.
MessageOr(a, b) == IF a = Text("") THEN b ELSE a
StringOr(a, b) == IF a = "" THEN b ELSE a
StatusOr(a, b) == IF a = 0 THEN b ELSE a

\* A handleRequestError that does not tell an abort from other failures.
handleRequestError_NoTimeoutBranch(error, ms) ==
  IF error.name = "ApiError" THEN error
  ELSE IF error.name # "thrown value"
    THEN ApiError(MessageOr(error.message, Text("Network request failed")),
                  NoStatus, "NetworkError")
  ELSE ApiError(Text("An unknown error occurred"), NoStatus, "UnknownError")

\* handleRequestError(error, requestId): the ApiError it throws.
handleRequestError(error, ms) ==
  IF error.name = "ApiError" THEN error
  ELSE IF error.name # "thrown value"
    THEN IF error.name = "AbortError"
           THEN ApiError(TimedOut(ms), 408, "TimeoutError")
           ELSE ApiError(MessageOr(error.message,
                                   Text("Network request failed")),
                         NoStatus, "NetworkError")
  ELSE ApiError(Text("An unknown error occurred"), NoStatus, "UnknownError")

\* parseErrorResponse(response) once response.json() has settled: with the
\* parsed data, or from the status line when the body did not parse.
parseErrorResponse(response, parsed, data) ==
  IF parsed
    THEN [message |-> MessageOr(data.message, Text(response.statusText)),
          error |-> StringOr(data.error, "Unknown Error"),
          statusCode |-> StatusOr(data.statusCode, response.status)]
    ELSE [message |-> Text(response.statusText), error |-> "Request Failed",
          statusCode |-> response.status]

\* The catch block of refreshAuthToken (authManager.ts lines 67-73): what it
\* throws for `error`.
AuthenticationFailed(error) ==
  IF error.name # "thrown value"
    THEN Error("Error", [text |-> "Authentication failed: ",
                         cause |-> error.message])
    ELSE Error("Error", Text("Authentication failed: Unknown error"))

Value(v) == [kind |-> "value", value |-> v]
Thrown(error) == [kind |-> "error", error |-> error]

\* The slot the next invocation of request() takes: one never used, or one
\* whose invocation has settled.
FreeRequests == {r \in Requests : request[r].pc \in {"idle", "done"}}
NewRequest == CHOOSE r \in FreeRequests : \A k \in FreeRequests : r <= k

\* request(endpoint, options) up to `await fetch(...)`, whatever the method:
\* the timeout is set and fetch is called.
Started(method, e) ==
  [request EXCEPT
     ![NewRequest] = [IdleRequest EXCEPT !.pc = "fetch", !.ep = e,
                                         !.timer = "armed"]]

\* The promise returned by request() settles with `outcome`.  When the
\* request is the POST /v1/auth of a refresh, refreshAuthToken goes on: with
\* a value to lines 60-66, with an error to its catch block.
Settle(r, outcome, cleared, aborted) ==
  LET e == request[r].ep
  IN /\ request' = [request EXCEPT
                      ![r].pc = "done", ![r].outcome = outcome,
                      ![r].response = Null,
                      ![r].timer = IF cleared THEN "cleared" ELSE @,
                      ![r].aborted = aborted]
     /\ UNCHANGED <<timeout, merchantVars, signatureVars, tokenVars>>
     /\ IF e = 0
          THEN UNCHANGED <<authVars, now, thrown>>
          ELSE IF outcome.kind = "value"
            THEN /\ RefreshExchanged(e, TRUE, outcome.value.token,
                                     outcome.value.expiresIn)
                 /\ UNCHANGED thrown
            ELSE /\ RefreshExchanged(e, FALSE, NoAuth, 0)
                 /\ thrown' = [thrown EXCEPT
                                 ![e] = AuthenticationFailed(outcome.error)]

\* `JSON.stringify(body)` in post and put (lines 183 and 195): it throws a
\* TypeError for a body it cannot serialise (a circular structure, a BigInt).
Serialisable(body) == body # "circular"
StringifyError ==
  Error("TypeError", Text("Converting circular structure to JSON"))

\* post or put rejects with what JSON.stringify threw: request() is not
\* entered, so no timer is set and fetch is not called.
NotSerialised ==
  [request EXCEPT
     ![NewRequest] = [IdleRequest EXCEPT !.pc = "done",
                                         !.outcome = Thrown(StringifyError)]]

\* get / post / put / delete called by the application; post and put
\* serialise their body before they call request().
ApiRequest(method, body) ==
  /\ FreeRequests # {}
  /\ request' = IF method \in {"POST", "PUT"} /\ ~Serialisable(body)
                  THEN NotSerialised
                  ELSE Started(method, 0)
  /\ UNCHANGED <<authVars, now, timeout, thrown, merchantVars,
                 signatureVars, tokenVars>>

\* `await this.signer.signMessage(message)` settles in refreshAuthToken.
\* With a signature apiClient.post("/v1/auth", ...) runs up to its fetch;
\* when the signer rejected with `error` the catch block (authManager.ts
\* lines 67-73) throws what it makes of it, and refreshAuthToken() rejects.
SignedAndPosted(e, ok, error) ==
  /\ ok => FreeRequests # {}
  /\ RefreshSigned(e, ok)
  /\ request' = IF ok THEN Started("POST", e) ELSE request
  /\ thrown' = IF ok THEN thrown
               ELSE [thrown EXCEPT ![e] = AuthenticationFailed(error)]
  /\ UNCHANGED <<timeout, merchantVars, signatureVars, tokenVars>>

\* The timeout elapses before fetch has settled: controller.abort() makes
\* fetch reject with an AbortError, and the catch block of lines 160-163
\* clears the timer and throws what `handle` makes of the error.
AbortError == Error("AbortError", Text("This operation was aborted"))

Aborted(r, error) ==
  /\ request[r].timer = "armed"
  /\ Settle(r, Thrown(error), TRUE, TRUE)

TimerFired_NoTimeoutError(r) ==
  Aborted(r, handleRequestError_NoTimeoutBranch(AbortError, timeout))

TimerFired(r) == Aborted(r, handleRequestError(AbortError, timeout))

\* fetch rejects (a network failure, or a thrown value that is no Error).
FetchRejected(r, error) ==
  /\ request[r].pc = "fetch"
  /\ Settle(r, Thrown(handleRequestError(error, timeout)), TRUE, FALSE)

\* fetch resolves with a response: the timer is cleared (line 147); for a
\* status that is not ok parseErrorResponse reads the body, else
\* parseResponse does and request() returns its promise.
FetchResolved(r, response) ==
  /\ request[r].pc = "fetch"
  /\ request' = [request EXCEPT
                   ![r].timer = "cleared", ![r].response = response,
                   ![r].pc = IF response.ok THEN "body" ELSE "errorBody"]
  /\ UNCHANGED <<authVars, now, timeout, thrown, merchantVars,
                 signatureVars, tokenVars>>

\* response.json() settles in parseErrorResponse; the ApiError of lines
\* 151-156 is thrown, caught on line 160 and rethrown by handleRequestError.
ErrorBodyRead(r, parsed, data) ==
  /\ request[r].pc = "errorBody"
  /\ LET errorData == parseErrorResponse(request[r].response, parsed, data)
     IN Settle(r,
               Thrown(handleRequestError(
                        ApiError(MessageOr(errorData.message,
                                           Text("API request failed")),
                                 errorData.statusCode, errorData.error),
                        timeout)),
               TRUE, FALSE)

\* The promise of parseResponse settles (response.json() for a JSON content
\* type, else response.text()).  request() returned it from inside the try
\* block without awaiting it, so a rejection is not caught on line 160.
BodyRead(r, ok, value) ==
  /\ request[r].pc = "body"
  /\ Settle(r,
            IF ok THEN Value(value)
            ELSE Thrown(IF request[r].response.json
                          THEN Error("SyntaxError",
                                     Text("Unexpected token in JSON"))
                          ELSE Error("TypeError", Text("terminated"))),
            FALSE, FALSE)

\* ---------------------------------------------------------- getTokenList
\* getTokenList settles with `result` and is over.
TokenListSettled(c, result) ==
  [tokenCall EXCEPT ![c].pc = "idle", ![c].result = result]

\* The catch block of lines 49-57 with `fallback` as the list it can return.
TokenFetchFailed(c, fallback) ==
  /\ tokenCall' =
       TokenListSettled(
         c, IF fallback # NoList THEN Value(fallback)
            ELSE Thrown(Error("Error",
                   Text("Failed to fetch token list and no cache available"))))
  /\ UNCHANGED <<cachedTokenList, tokenFetchTime, now>>

\* A getTokenList whose TTL test compares with the wrong sign.
getTokenList_InvertedTtl(c) ==
  /\ tokenCall[c].pc = "idle"
  /\ lookup[c].pc = "idle"
  /\ tokenCall' =
       IF cachedTokenList # NoList /\ now - tokenFetchTime >= CACHE_TTL_MS
         THEN [tokenCall EXCEPT
                 ![c] = [pc |-> "idle", now |-> now, fetched |-> FALSE,
                         result |-> Value(cachedTokenList)]]
         ELSE [tokenCall EXCEPT
                 ![c] = [pc |-> "fetch", now |-> now, fetched |-> TRUE,
                         result |-> NoOutcome]]
  /\ UNCHANGED <<cachedTokenList, tokenFetchTime, now>>

\* getTokenList() up to its first await (lines 32-40): the cached list is
\* returned while it is fresh, else fetch(TOKEN_LIST_URL) is called.
getTokenList(c) ==
  /\ tokenCall[c].pc = "idle"
  /\ lookup[c].pc = "idle"
  /\ tokenCall' =
       IF cachedTokenList # NoList /\ now - tokenFetchTime < CACHE_TTL_MS
         THEN [tokenCall EXCEPT
                 ![c] = [pc |-> "idle", now |-> now, fetched |-> FALSE,
                         result |-> Value(cachedTokenList)]]
         ELSE [tokenCall EXCEPT
                 ![c] = [pc |-> "fetch", now |-> now, fetched |-> TRUE,
                         result |-> NoOutcome]]
  /\ UNCHANGED <<cachedTokenList, tokenFetchTime, now>>

\* A getTokenList without the fallback of lines 52-55.
TokenListFetched_NoFallback(c, outcome) ==
  /\ tokenCall[c].pc = "fetch"
  /\ IF outcome = "ok"
       THEN /\ tokenCall' = [tokenCall EXCEPT ![c].pc = "json"]
            /\ UNCHANGED <<cachedTokenList, tokenFetchTime, now>>
       ELSE TokenFetchFailed(c, NoList)

\* `await fetch(TOKEN_LIST_URL)` settles: with an ok response
\* response.json() is called; a rejection ("error") or another status
\* ("notOk", the throw of line 42) is caught on line 49.
TokenListFetched(c, outcome) ==
  /\ tokenCall[c].pc = "fetch"
  /\ IF outcome = "ok"
       THEN /\ tokenCall' = [tokenCall EXCEPT ![c].pc = "json"]
            /\ UNCHANGED <<cachedTokenList, tokenFetchTime, now>>
       ELSE TokenFetchFailed(c, cachedTokenList)

\* `await response.json()` settles: it rejected (parsed = FALSE, caught on
\* line 49) or gave `data`, which is cached with the time read when the call
\* began (lines 46-48).
TokenListParsed(c, parsed, data) ==
  /\ tokenCall[c].pc = "json"
  /\ IF parsed
       THEN /\ tokenFetchTime' = tokenCall[c].now
            /\ cachedTokenList' = data
            /\ tokenCall' = TokenListSettled(c, Value(data))
            /\ UNCHANGED now
       ELSE TokenFetchFailed(c, cachedTokenList)

\* ------------------------------------------- getTokenBySymbol / ByAddress
\* A token of the list (token.ts lines 8-13); every token of the model is on
\* chain 1, the chain of every lookup.
Token(symbol, address) ==
  [chainId |-> 1, address |-> address, symbol |-> symbol, decimals |-> 6]

\* The lists the remote file can hold.
TokenLists == {"list-v1", "list-v2"}

\* `tokenList.tokens`: list-v1 names TKN at 0xT, list-v2 names no token.
TokensOf(list) == IF list = "list-v1" THEN {Token("TKN", "0xT")} ELSE {}

\* String.prototype.toLowerCase on the addresses of the model.
toLowerCase(address) == IF address = "0xT" THEN "0xt" ELSE address

\* `tokens.find(...)`: the token found, or Undefined.
Find(tokens) == IF tokens = {} THEN Undefined ELSE CHOOSE t \in tokens : TRUE

\* The lookup by caller c settles with `result` and is over.
LookupSettled(c, result) ==
  [lookup EXCEPT ![c].pc = "idle", ![c].result = result]

\* A lookup up to `await getTokenList()` (lines 64 and 117).
Lookup(c, kind, key) ==
  /\ lookup[c].pc = "idle"
  /\ getTokenList(c)
  /\ lookup' = [lookup EXCEPT
                  ![c] = [pc |-> "list", kind |-> kind, key |-> key,
                          result |-> NoOutcome]]
  /\ UNCHANGED cachedTokenMap

\* getTokenBySymbol(chainId, symbol).
getTokenBySymbol(c, symbol) == Lookup(c, "symbol", symbol)

\* getTokenByAddress(chain, address).
getTokenByAddress(c, address) == Lookup(c, "address", address)

\* `await getTokenList()` settles in a lookup.  A rejection rejects the
\* lookup.  getTokenBySymbol returns what find gives (lines 118-120);
\* getTokenByAddress returns the token found in the list (lines 65-73), else
\* the one in cachedTokenMap (lines 79-81), else it reads symbol and decimals
\* from the contract (lines 83-100).  find compares addresses in lower case,
\* cachedTokenMap is indexed by the address as given.
TokenListReturned(c) ==
  /\ lookup[c].pc = "list"
  /\ tokenCall[c].pc = "idle"
  /\ LET list == tokenCall[c].result
         key == lookup[c].key
         found ==
           IF list.kind # "value" THEN {}
           ELSE {t \in TokensOf(list.value) :
                   IF lookup[c].kind = "symbol" THEN t.symbol = key
                   ELSE toLowerCase(t.address) = toLowerCase(key)}
         mapped == {t \in cachedTokenMap : t.address = key}
     IN lookup' =
          IF list.kind = "error" THEN LookupSettled(c, list)
          ELSE IF lookup[c].kind = "symbol" \/ found # {}
            THEN LookupSettled(c, Value(Find(found)))
          ELSE IF mapped # {} THEN LookupSettled(c, Value(Find(mapped)))
          ELSE [lookup EXCEPT ![c].pc = "readContract"]
  /\ tokenCall' = [tokenCall EXCEPT ![c] = IdleTokenCall]
  /\ UNCHANGED <<cachedTokenList, tokenFetchTime, cachedTokenMap, now>>

\* The two readContract calls of lines 89-100 settle: with `symbol` read
\* from the contract the token is stored in cachedTokenMap and returned
\* (lines 102-110); a failed read rejects the lookup.
ContractRead(c, ok, symbol) ==
  /\ lookup[c].pc = "readContract"
  /\ LET newToken == Token(symbol, lookup[c].key)
     IN IF ok
          THEN /\ cachedTokenMap' =
                    {t \in cachedTokenMap : t.address # lookup[c].key}
                      \cup {newToken}
               /\ lookup' = LookupSettled(c, Value(newToken))
          ELSE /\ lookup' =
                    LookupSettled(
                      c, Thrown(Error("ContractFunctionExecutionError",
                                      Text("The contract function reverted"))))
               /\ UNCHANGED cachedTokenMap
  /\ UNCHANGED <<cachedTokenList, tokenFetchTime, tokenCall, now>>

\* -------------------------------------------------------------- Merchant
\* The manager AuthManager.create() constructs next.
FreshManagers == {m \in Managers : mstate[m] = "none"}
NewManager == CHOOSE m \in FreshManagers : \A k \in FreshManagers : m <= k

\* A request that always carries an authorization header, a placeholder
\* when no token is held.
Request_AlwaysHeader(c, op, m, ep, token) ==
  [call EXCEPT ![c] = [IdleCall EXCEPT !.op = op, !.pc = "request",
                                       !.mgr = m, !.ep = ep,
                                       !.authorization =
                                         IF token = Undefined THEN OldToken
                                         ELSE token]]

\* The call of op by c hands its /v1/channels request to apiClient, with
\* `token` as authorization header, and awaits the response.
Request(c, op, m, ep, token) ==
  [call EXCEPT ![c] = [IdleCall EXCEPT !.op = op, !.pc = "request",
                                       !.mgr = m, !.ep = ep,
                                       !.authorization = token]]

\* viem's chain.nativeCurrency of the one chain of the model, and, of the
\* chain ids of the model, those chainMap knows (part_002 lines 68-72):
\* chain 1 is viem's mainnet; -1 is the id of no chain.
NativeCurrency == [name |-> "Ether", symbol |-> "ETH", decimals |-> 18]
KnownChains == {1}

ValidationError(message) == Error("ValidationError", Text(message))

\* The call by c makes no lookup, and has consumed the one it awaited.
NoLookup(c) ==
  /\ lookup' = [lookup EXCEPT ![c] = IdleLookup]
  /\ UNCHANGED <<cachedTokenList, tokenFetchTime, tokenCall, cachedTokenMap>>

\* extractRequestTokenMetadata(params) (part_002 lines 7-41) up to its first
\* await: it throws for both fields, returns the native currency for none
\* and for the native symbol, and else looks the token up.  "" is a field
\* that is undefined or empty.
RequestNeedsLookup(currency, tokenAddress) ==
  \/ currency # "" /\ tokenAddress = "" /\ currency # NativeCurrency.symbol
  \/ currency = "" /\ tokenAddress # ""

extractRequestTokenMetadata(c, currency, tokenAddress) ==
  IF ~RequestNeedsLookup(currency, tokenAddress) THEN NoLookup(c)
  ELSE IF currency # "" THEN getTokenBySymbol(c, currency)
  ELSE getTokenByAddress(c, tokenAddress)

\* What extractRequestTokenMetadata settles with for the call by c, once its
\* lookup, if any, has settled.
RequestToken(c) ==
  LET currency == call[c].currency
      tokenAddress == call[c].tokenAddress
      looked == lookup[c].result
  IN IF currency # "" /\ tokenAddress # ""
       THEN Thrown(ValidationError("Only set either currency or tokenAddress"))
     ELSE IF currency # ""
       THEN IF currency = NativeCurrency.symbol THEN Value(NativeCurrency)
            ELSE IF looked.kind = "error" THEN looked
            ELSE IF looked.value = Undefined
              THEN Thrown(ValidationError("Currency is not supported"))
            ELSE looked
     ELSE IF tokenAddress # ""
       THEN IF looked.kind = "error"
              THEN Thrown(ValidationError("Failed to fetch token details"))
              ELSE looked
     ELSE Value(NativeCurrency)

\* extractChannelTokenMetadata(payment) (part_002 lines 74-89) up to its
\* first await: undefined for a chain chainMap does not know, a lookup for a
\* payment that names a token, else the native currency.
ChannelNeedsLookup(payment) ==
  payment.chainId \in KnownChains /\ payment.tokenAddress # ""

extractChannelTokenMetadata(c, payment) ==
  IF ChannelNeedsLookup(payment)
    THEN getTokenByAddress(c, payment.tokenAddress)
    ELSE NoLookup(c)

\* The call by c goes on to `await this.normalize(...)` for the first of
\* `items` (lines 230-232 and 250); with none left it returns its result.
Normalize(c, items) ==
  IF items = <<>>
    THEN /\ call' = [call EXCEPT ![c] = IdleCall]
         /\ NoLookup(c)
    ELSE /\ call' = [call EXCEPT ![c].pc = "normalize", ![c].items = items,
                                 ![c].authorization = Undefined]
         /\ extractChannelTokenMetadata(c, Head(items))

\* The call by c continues after `await authManager.ensureAuthenticated()`
\* has resolved.  queryPayments builds its request at once from
\* authManager.getAuthToken(); createPayment first awaits
\* extractRequestTokenMetadata(params).
Authenticated(c, ep) ==
  IF call[c].op = "queryPayments"
    THEN /\ call' = Request(c, call[c].op, call[c].mgr, ep,
                            TokenOf(auth'[call[c].mgr]))
         /\ UNCHANGED tokenVars
    ELSE /\ call' = [call EXCEPT ![c].pc = "metadata", ![c].ep = ep]
         /\ extractRequestTokenMetadata(c, call[c].currency,
                                        call[c].tokenAddress)

\* A call that starts ensureAuthenticated() and goes on without awaiting it.
CallEnsure_NoAwait(c, m) ==
  /\ ensureAuthenticated(c, m)
  /\ Authenticated(c, caller'[c].ep)

\* `await authManager.ensureAuthenticated()` in the call by c: the call
\* waits for the promise, also when ensureAuthenticated() returned at once.
CallEnsure(c, m) ==
  /\ ensureAuthenticated(c, m)
  /\ call' = [call EXCEPT
                ![c].pc = IF caller'[c].pc = "idle" THEN "ensured"
                          ELSE "ensuring",
                ![c].ep = caller'[c].ep]
  /\ UNCHANGED tokenVars

\* `await this.getAuthManager()` up to the await: without a manager
\* getAuthManager() calls AuthManager.create() and awaits it, with one it
\* returns it.  params are the createPayment parameters read later on.
BeginCall(c, op, params) ==
  /\ call[c].pc = "idle"
  /\ caller[c].pc = "idle"
  /\ UNCHANGED <<config, authManager>>
  /\ IF authManager = 0
       THEN /\ FreshManagers # {}
            /\ create(NewManager, config.signer)
            /\ call' = [call EXCEPT
                          ![c] = [IdleCall EXCEPT
                                    !.op = op, !.pc = "creating",
                                    !.mgr = NewManager,
                                    !.currency = params.currency,
                                    !.tokenAddress = params.tokenAddress,
                                    !.metadata = params.metadata]]
       ELSE /\ call' = [call EXCEPT
                          ![c] = [IdleCall EXCEPT
                                    !.op = op, !.pc = "manager",
                                    !.mgr = authManager,
                                    !.currency = params.currency,
                                    !.tokenAddress = params.tokenAddress,
                                    !.metadata = params.metadata]]
            /\ UNCHANGED <<authVars, now>>

\* A string as its characters.
String(chars) == [chars |-> chars]

\* parseFloat on a string over Chars: an optional minus sign, then the
\* longest run of digits; NaN when there is no digit.  Trailing characters
\* are ignored, as parseFloat ignores them.
NaN == [nan |-> TRUE]
Number(n) == [nan |-> FALSE, value |-> n]
IsDigit(ch) == ch \in {"0", "5"}
DigitValue(ch) == IF ch = "5" THEN 5 ELSE 0
RECURSIVE ParseDigits(_, _)
ParseDigits(str, acc) ==
  IF str = <<>> \/ ~IsDigit(Head(str)) THEN acc
  ELSE ParseDigits(Tail(str), acc * 10 + DigitValue(Head(str)))
parseFloat(str) ==
  LET negative == str.chars # <<>> /\ Head(str.chars) = "-"
      digits == IF negative THEN Tail(str.chars) ELSE str.chars
  IN IF digits = <<>> \/ ~IsDigit(Head(digits)) THEN NaN
     ELSE Number((IF negative THEN -1 ELSE 1) * ParseDigits(digits, 0))

\* BigInt(str) on a string over Chars returns for the empty string, for an
\* optional minus sign followed by decimal digits only, and for "0x"
\* followed by at least one hexadecimal digit (of Chars, the digits); it
\* throws a SyntaxError for any other string, a signed hexadecimal literal
\* included.
BigIntParses(str) ==
  LET chars == str.chars
      negative == chars # <<>> /\ Head(chars) = "-"
      digits == IF negative THEN Tail(chars) ELSE chars
  IN \/ chars = <<>>
     \/ digits # <<>> /\ \A i \in 1..Len(digits) : IsDigit(digits[i])
     \/ /\ Len(chars) > 2
        /\ chars[1] = "0"
        /\ chars[2] = "x"
        /\ \A i \in 3..Len(chars) : IsDigit(chars[i])

\* A validatePaymentParams that accepts any amount that parses to a number.
validatePaymentParams_AcceptsNonPositive(params) ==
  IF params.chainId = 0 THEN "chain.id is required"
  ELSE IF params.amount = Undefined \/ params.amount = String(<<>>)
    THEN "amount is required"
  ELSE IF parseFloat(params.amount) = NaN
    THEN "Invalid amount"
  ELSE "valid"

\* validatePaymentParams(params): the message of the ValidationError it
\* throws, or "valid".  chainId 0 stands for a missing chain.id.
validatePaymentParams(params) ==
  IF params.chainId = 0 THEN "chain.id is required"
  ELSE IF params.amount = Undefined \/ params.amount = String(<<>>)
    THEN "amount is required"
  ELSE IF \/ parseFloat(params.amount) = NaN
          \/ parseFloat(params.amount).value <= 0
    THEN "Invalid amount"
  ELSE "valid"

\* A call that throws a ValidationError before anything else happens.
Invalid(c, op) ==
  /\ call[c].pc = "idle"
  /\ caller[c].pc = "idle"
  /\ observed' = Return(0, op, "ValidationError")
  /\ UNCHANGED <<hasWindow, hasLocalStorage, localStorage, storageOps, now,
                 mstate, signer, auth, refreshingToken, loadData, refresh,
                 nextEp, caller, config, authManager, call>>

\* The parameters of a call that has none of createPayment's.
NoParams == [currency |-> "", tokenAddress |-> "", metadata |-> "object"]

\* Merchant.createPayment(params).
createPayment(c, params) ==
  IF validatePaymentParams(params) = "valid"
    THEN BeginCall(c, "createPayment", params)
    ELSE Invalid(c, "createPayment")

\* Merchant.queryPayments(query).
queryPayments(c) ==
  IF config.signer = NoSigner THEN Invalid(c, "queryPayments")
  ELSE BeginCall(c, "queryPayments", NoParams)

\* A getPayment that sends its request whatever the id.
getPayment_NoValidation(c, id) ==
  /\ call[c].pc = "idle"
  /\ caller[c].pc = "idle"
  /\ call' = Request(c, "getPayment", 0, 0, Undefined)
  /\ UNCHANGED <<hasWindow, hasLocalStorage, localStorage, storageOps, now,
                 mstate, signer, auth, refreshingToken, loadData, refresh,
                 nextEp, caller, observed, config, authManager>>

\* Merchant.getPayment(id): after the test of the id, apiClient.get is called
\* without options; no AuthManager is involved.
getPayment(c, id) ==
  IF id = "" THEN Invalid(c, "getPayment")
  ELSE /\ call[c].pc = "idle"
       /\ caller[c].pc = "idle"
       /\ call' = Request(c, "getPayment", 0, 0, Undefined)
       /\ UNCHANGED <<hasWindow, hasLocalStorage, localStorage, storageOps,
                      now, mstate, signer, auth, refreshingToken, loadData,
                      refresh, nextEp, caller, observed, config, authManager>>

\* getAuthManager() resumes after AuthManager.create() has resolved:
\* `this.authManager = ...; return this.authManager` (lines 259-264).  The
\* call that awaits getAuthManager() goes on in a later reaction.
GotManager(c) ==
  /\ call[c].pc = "creating"
  /\ mstate[call[c].mgr] = "ready"
  /\ authManager' = call[c].mgr
  /\ call' = [call EXCEPT ![c].pc = "manager"]
  /\ UNCHANGED <<authVars, now, config>>

\* `await this.getAuthManager()` resumes in createPayment or queryPayments
\* (lines 177-178 and 214-215) with the manager getAuthManager() returned:
\* ensureAuthenticated() is called on it and awaited.
ManagerReturned(c) ==
  /\ call[c].pc = "manager"
  /\ CallEnsure(c, call[c].mgr)
  /\ UNCHANGED <<config, authManager>>

\* A call that goes on to its request whatever ensureAuthenticated() settled
\* with.
EnsureSettled_IgnoresRejection(c) ==
  /\ call[c].pc = "ensuring"
  /\ (StarterResume(c) \/ JoinerResume(c))
  /\ call' = [call EXCEPT ![c].pc = "ensured"]
  /\ UNCHANGED <<config, authManager>>

\* The ensureAuthenticated() call made for the call by c settles: the
\* starter's finally block has run, or the promise a joiner returned has
\* settled.  The call that awaits it goes on in a later reaction.
EnsureSettled(c) ==
  /\ call[c].pc = "ensuring"
  /\ (StarterResume(c) \/ JoinerResume(c))
  /\ call' = [call EXCEPT
                ![c].pc = IF observed'.result = "resolved" THEN "ensured"
                          ELSE "ensureFailed"]
  /\ UNCHANGED <<config, authManager>>

\* `await authManager.ensureAuthenticated()` resumes in the call by c: a
\* rejection rejects the call, else the call goes on (lines 180 and 217).
EnsureReturned(c) ==
  /\ call[c].pc \in {"ensured", "ensureFailed"}
  /\ UNCHANGED <<authVars, now, config, authManager>>
  /\ IF call[c].pc = "ensured"
       THEN Authenticated(c, call[c].ep)
       ELSE /\ call' = [call EXCEPT ![c] = IdleCall]
            /\ UNCHANGED tokenVars

\* A createPayment that attaches the token only after a refresh of its own.
MetadataResolved_HeaderAfterRefresh(c) ==
  /\ call[c].pc = "metadata"
  /\ RequestNeedsLookup(call[c].currency, call[c].tokenAddress)
       => lookup[c].pc = "idle"
  /\ call' = IF /\ RequestToken(c).kind = "value"
                 /\ Serialisable(call[c].metadata)
               THEN Request(c, call[c].op, call[c].mgr, call[c].ep,
                            IF call[c].ep = 0 THEN Undefined
                            ELSE AuthToken(call[c].mgr))
               ELSE [call EXCEPT ![c] = IdleCall]
  /\ NoLookup(c)
  /\ UNCHANGED <<authVars, now, config, authManager>>

\* createPayment: extractRequestTokenMetadata(params) settles; on success
\* the payload is built, `authManager.getAuthToken()` becomes the
\* authorization header when it is defined, and the request is posted
\* (lines 181-202).  A failure rejects the call, and so does a payload that
\* apiClient.post cannot serialise, before any request is made.
MetadataResolved(c) ==
  /\ call[c].pc = "metadata"
  /\ RequestNeedsLookup(call[c].currency, call[c].tokenAddress)
       => lookup[c].pc = "idle"
  /\ call' = IF /\ RequestToken(c).kind = "value"
                 /\ Serialisable(call[c].metadata)
               THEN Request(c, call[c].op, call[c].mgr, call[c].ep,
                            AuthToken(call[c].mgr))
               ELSE [call EXCEPT ![c] = IdleCall]
  /\ NoLookup(c)
  /\ UNCHANGED <<authVars, now, config, authManager>>

\* The /v1/channels request settles.  A failure is rethrown, and
\* createPayment returns the response; queryPayments goes on to normalize
\* the items of the response and getPayment the payment it received.
ChannelResponded(c, ok, items) ==
  /\ call[c].pc = "request"
  /\ ~ReactionsQueued
  /\ IF ok /\ call[c].op # "createPayment"
       THEN Normalize(c, items)
       ELSE /\ call' = [call EXCEPT ![c] = IdleCall]
            /\ NoLookup(c)
  /\ UNCHANGED <<authVars, now, config, authManager>>

\* `await this.normalize(item)` settles for the first of the items left
\* (lines 281-291): a failed lookup rejects the call, and so does an amount
\* of a payment on a known chain that BigInt cannot parse; else the payment
\* gets its humanReadableAmount and currency and the call goes on to the
\* next.
Normalized(c) ==
  /\ call[c].pc = "normalize"
  /\ ChannelNeedsLookup(Head(call[c].items)) => lookup[c].pc = "idle"
  /\ IF \/ /\ ChannelNeedsLookup(Head(call[c].items))
           /\ lookup[c].result.kind = "error"
        \/ /\ Head(call[c].items).chainId \in KnownChains
           /\ ~BigIntParses(Head(call[c].items).amount)
       THEN /\ call' = [call EXCEPT ![c] = IdleCall]
            /\ NoLookup(c)
       ELSE Normalize(c, Tail(call[c].items))
  /\ UNCHANGED <<authVars, now, config, authManager>>

\* ------------------------------------------------------------------ Spec
\* One AuthManager and its callers.
SpecManagers == {1}

Next ==
  \/ Tick /\ UNCHANGED clientVars
  \/ \E m \in SpecManagers, s \in Addresses \cup {NoSigner} :
       create(m, s) /\ UNCHANGED clientVars
  \/ \E m \in SpecManagers, keyOk \in BOOLEAN :
       loadPersistedAuth(m, keyOk) /\ UNCHANGED clientVars
  \/ \E c \in Callers, m \in SpecManagers :
       ensureAuthenticated(c, m) /\ UNCHANGED clientVars
  \/ \E m \in SpecManagers : getAuthToken(m) /\ UNCHANGED clientVars
  \/ \E c \in Callers : StarterResume(c) /\ UNCHANGED clientVars
  \/ \E c \in Callers : JoinerResume(c) /\ UNCHANGED clientVars
  \/ \E e \in Episodes, ok \in BOOLEAN :
       RefreshGotAddress(e, ok) /\ UNCHANGED clientVars
  \/ \E e \in Episodes, ok \in BOOLEAN :
       RefreshSigned(e, ok) /\ UNCHANGED clientVars
  \/ \E e \in Episodes, ok \in BOOLEAN, x \in ExpiresInValues :
       RefreshExchanged(e, ok, IssuedToken(e), x) /\ UNCHANGED clientVars
  \/ \E e \in Episodes : PersistSkipped(e) /\ UNCHANGED clientVars
  \/ \E e \in Episodes, ok \in BOOLEAN :
       PersistKeyDerived(e, ok) /\ UNCHANGED clientVars
  \/ \E e \in Episodes, iv \in IVs, ok \in BOOLEAN, writeOk \in BOOLEAN :
       PersistEncrypted(e, iv, ok, writeOk) /\ UNCHANGED clientVars

Spec == Init /\ [][Next]_vars

\* Spec with every pending operation settling in the end: the signer's
\* getAddress and signMessage, POST /v1/auth, the key derivation and
\* encryption of persistAuth, and the resumption of a call whose awaited
\* promise has settled (the microtask queue is always drained).
Fairness ==
  /\ WF_vars(\E c \in Callers : StarterResume(c) /\ UNCHANGED clientVars)
  /\ WF_vars(\E c \in Callers : JoinerResume(c) /\ UNCHANGED clientVars)
  /\ WF_vars(\E e \in Episodes, ok \in BOOLEAN :
               RefreshGotAddress(e, ok) /\ UNCHANGED clientVars)
  /\ WF_vars(\E e \in Episodes, ok \in BOOLEAN :
               RefreshSigned(e, ok) /\ UNCHANGED clientVars)
  /\ WF_vars(\E e \in Episodes, ok \in BOOLEAN, x \in ExpiresInValues :
               RefreshExchanged(e, ok, IssuedToken(e), x)
                 /\ UNCHANGED clientVars)
  /\ WF_vars(\E e \in Episodes : PersistSkipped(e) /\ UNCHANGED clientVars)
  /\ WF_vars(\E e \in Episodes, ok \in BOOLEAN :
               PersistKeyDerived(e, ok) /\ UNCHANGED clientVars)
  /\ WF_vars(\E e \in Episodes, iv \in IVs, ok \in BOOLEAN,
                 writeOk \in BOOLEAN :
               PersistEncrypted(e, iv, ok, writeOk) /\ UNCHANGED clientVars)

SpecFair == Spec /\ Fairness

\* A Merchant and the callers of its createPayment and queryPayments.
\* Two callers use the Merchant.  Its signer is 0xA or absent; storage is empty or holds 0xA's
\* record; the exchange grants 61 seconds, so that a token is usable for one
\* clock step and expired after it.  Of the failures below the Merchant only
\* the signer refusing to sign and the exchange failing are explored.
MerchantCallers == {1, 2}
MerchantSigners == {"0xA", NoSigner}
MerchantItems == {NoItem, ValidItem}
MerchantExpiresIn == {61}
\* Amounts are strings of at most two characters, or missing.
Chars == {"-", "0", "5", "x"}
Amounts ==
  {Undefined, String(<<>>)} \cup {String(<<a>>) : a \in Chars}
    \cup {String(<<a, b>>) : a \in Chars, b \in Chars}
\* Every payment is in the native currency and has serialisable metadata,
\* and so is every payment of a /v1/channels response, of which
\* queryPayments receives at most one: no call looks a token up.
PaymentParams ==
  [chainId : {0, 1}, amount : Amounts, currency : {""}, tokenAddress : {""},
   metadata : {"object"}]
PaymentIds == {"", "pay_123"}
Payment(chainId, tokenAddress, amount) ==
  [chainId |-> chainId, tokenAddress |-> tokenAddress, amount |-> amount]
NativeItems ==
  {<<>>, <<Payment(1, "", String(<<"5">>))>>,
   <<Payment(1, "", String(<<"5", "x">>))>>}

InitMerchant ==
  /\ InitAuthManager
  /\ localStorage \in MerchantItems
  /\ \E s \in MerchantSigners : NewMerchant(s)
  /\ NewSignatureModule
  /\ NewApiClient(DefaultTimeout)
  /\ NewTokenModule

NextMerchant ==
  \/ Tick /\ UNCHANGED clientVars
  \/ \E c \in MerchantCallers, params \in PaymentParams :
       createPayment(c, params) /\ UNCHANGED <<signatureVars, apiVars, tokenVars>>
  \/ \E c \in MerchantCallers :
       queryPayments(c) /\ UNCHANGED <<signatureVars, apiVars, tokenVars>>
  \/ \E c \in MerchantCallers, id \in PaymentIds :
       getPayment(c, id) /\ UNCHANGED <<signatureVars, apiVars, tokenVars>>
  \/ \E c \in MerchantCallers :
       GotManager(c) /\ UNCHANGED <<signatureVars, apiVars, tokenVars>>
  \/ \E c \in MerchantCallers :
       ManagerReturned(c) /\ UNCHANGED <<signatureVars, apiVars>>
  \/ \E c \in MerchantCallers :
       EnsureSettled(c) /\ UNCHANGED <<signatureVars, apiVars, tokenVars>>
  \/ \E c \in MerchantCallers :
       EnsureReturned(c) /\ UNCHANGED <<signatureVars, apiVars>>
  \/ \E c \in MerchantCallers :
       MetadataResolved(c) /\ UNCHANGED <<signatureVars, apiVars>>
  \/ \E c \in MerchantCallers, ok \in BOOLEAN, items \in NativeItems :
       /\ call[c].op = "getPayment" => Len(items) = 1
       /\ ChannelResponded(c, ok, items)
       /\ UNCHANGED <<signatureVars, apiVars>>
  \/ \E c \in MerchantCallers :
       Normalized(c) /\ UNCHANGED <<signatureVars, apiVars>>
  \/ \E m \in Managers : loadPersistedAuth(m, TRUE) /\ UNCHANGED clientVars
  \/ \E e \in Episodes : RefreshGotAddress(e, TRUE) /\ UNCHANGED clientVars
  \/ \E e \in Episodes, ok \in BOOLEAN :
       RefreshSigned(e, ok) /\ UNCHANGED clientVars
  \/ \E e \in Episodes, ok \in BOOLEAN, x \in MerchantExpiresIn :
       RefreshExchanged(e, ok, IssuedToken(e), x) /\ UNCHANGED clientVars
  \/ \E e \in Episodes : PersistSkipped(e) /\ UNCHANGED clientVars
  \/ \E e \in Episodes : PersistKeyDerived(e, TRUE) /\ UNCHANGED clientVars
  \/ \E e \in Episodes, iv \in IVs :
       PersistEncrypted(e, iv, TRUE, TRUE) /\ UNCHANGED clientVars

SpecMerchant == InitMerchant /\ [][NextMerchant]_vars

\* One caller of a Merchant whose payments name tokens.  The Merchant has
\* the signer 0xA or none; the clock stands still.  A
\* payment names a currency by its symbol or a token by its address, or,
\* wrongly, both, and its metadata may be circular; a payment of a response
\* is in the native currency, in the token at 0xT, or on a chain chainMap
\* does not know, its amount is decimal, hexadecimal or malformed, and
\* queryPayments receives up to two of them.
PaymentCallers == {1}
TokenPaymentParams ==
  [chainId : {1}, amount : {String(<<"5">>)}, currency : {"", "ETH", "TKN"},
   tokenAddress : {"", "0xT"}, metadata : {"object", "circular"}]
ChannelPayments ==
  {Payment(1, "", String(<<"5">>)), Payment(1, "0xT", String(<<"5">>)),
   Payment(1, "0xT", String(<<"5", "x">>)),
   Payment(1, "", String(<<"0", "x", "5">>)),
   Payment(-1, "0xT", String(<<"5", "x">>))}
ChannelItems ==
  {<<>>} \cup {<<p>> : p \in ChannelPayments}
    \cup {<<Payment(1, "0xT", String(<<"5">>)),
            Payment(1, "0xT", String(<<"5">>))>>}

NextPayments ==
  \/ \E c \in PaymentCallers, params \in TokenPaymentParams :
       createPayment(c, params)
         /\ UNCHANGED <<signatureVars, apiVars, tokenVars>>
  \/ \E c \in PaymentCallers :
       queryPayments(c) /\ UNCHANGED <<signatureVars, apiVars, tokenVars>>
  \/ \E c \in PaymentCallers, id \in PaymentIds :
       getPayment(c, id) /\ UNCHANGED <<signatureVars, apiVars, tokenVars>>
  \/ \E c \in PaymentCallers :
       GotManager(c) /\ UNCHANGED <<signatureVars, apiVars, tokenVars>>
  \/ \E c \in PaymentCallers :
       ManagerReturned(c) /\ UNCHANGED <<signatureVars, apiVars>>
  \/ \E c \in PaymentCallers :
       EnsureSettled(c) /\ UNCHANGED <<signatureVars, apiVars, tokenVars>>
  \/ \E c \in PaymentCallers :
       EnsureReturned(c) /\ UNCHANGED <<signatureVars, apiVars>>
  \/ \E c \in PaymentCallers :
       MetadataResolved(c) /\ UNCHANGED <<signatureVars, apiVars>>
  \/ \E c \in PaymentCallers, ok \in BOOLEAN, items \in ChannelItems :
       /\ call[c].op = "getPayment" => Len(items) = 1
       /\ ChannelResponded(c, ok, items)
       /\ UNCHANGED <<signatureVars, apiVars>>
  \/ \E c \in PaymentCallers :
       Normalized(c) /\ UNCHANGED <<signatureVars, apiVars>>
  \/ \E c \in PaymentCallers, outcome \in {"ok", "notOk", "error"} :
       /\ ~ReactionsQueued
       /\ TokenListFetched(c, outcome)
       /\ UNCHANGED <<authVars, merchantVars, apiVars, signatureVars,
                      cachedTokenMap, lookup>>
  \/ \E c \in PaymentCallers, parsed \in BOOLEAN, data \in TokenLists :
       /\ ~ReactionsQueued
       /\ TokenListParsed(c, parsed, data)
       /\ UNCHANGED <<authVars, merchantVars, apiVars, signatureVars,
                      cachedTokenMap, lookup>>
  \/ \E c \in PaymentCallers :
       TokenListReturned(c)
         /\ UNCHANGED <<authVars, merchantVars, apiVars, signatureVars>>
  \/ \E c \in PaymentCallers, ok \in BOOLEAN :
       /\ ~ReactionsQueued
       /\ ContractRead(c, ok, "TKN")
       /\ UNCHANGED <<authVars, merchantVars, apiVars, signatureVars>>
  \/ \E m \in Managers : loadPersistedAuth(m, TRUE) /\ UNCHANGED clientVars
  \/ \E e \in Episodes : RefreshGotAddress(e, TRUE) /\ UNCHANGED clientVars
  \/ \E e \in Episodes, ok \in BOOLEAN :
       RefreshSigned(e, ok) /\ UNCHANGED clientVars
  \/ \E e \in Episodes, ok \in BOOLEAN, x \in MerchantExpiresIn :
       RefreshExchanged(e, ok, IssuedToken(e), x) /\ UNCHANGED clientVars
  \/ \E e \in Episodes : PersistSkipped(e) /\ UNCHANGED clientVars
  \/ \E e \in Episodes : PersistKeyDerived(e, TRUE) /\ UNCHANGED clientVars
  \/ \E e \in Episodes, iv \in IVs :
       PersistEncrypted(e, iv, TRUE, TRUE) /\ UNCHANGED clientVars

SpecPayments == InitMerchant /\ [][NextPayments]_vars

\* Two callers of a Merchant with the signer 0xA whose createPayment names
\* the currency TKN, so that each createPayment waits for the token list.
\* The clock advances as under SpecMerchant; the signer signs, the exchange
\* succeeds and a response of /v1/channels has no items.
OverlapParams ==
  [chainId : {1}, amount : {String(<<"5">>)}, currency : {"TKN"},
   tokenAddress : {""}, metadata : {"object"}]

InitOverlap ==
  /\ InitMerchant
  /\ config.signer = "0xA"

NextOverlap ==
  \/ Tick /\ UNCHANGED clientVars
  \/ \E c \in MerchantCallers, params \in OverlapParams :
       createPayment(c, params)
         /\ UNCHANGED <<signatureVars, apiVars, tokenVars>>
  \/ \E c \in MerchantCallers :
       queryPayments(c) /\ UNCHANGED <<signatureVars, apiVars, tokenVars>>
  \/ \E c \in MerchantCallers :
       GotManager(c) /\ UNCHANGED <<signatureVars, apiVars, tokenVars>>
  \/ \E c \in MerchantCallers :
       ManagerReturned(c) /\ UNCHANGED <<signatureVars, apiVars>>
  \/ \E c \in MerchantCallers :
       EnsureSettled(c) /\ UNCHANGED <<signatureVars, apiVars, tokenVars>>
  \/ \E c \in MerchantCallers :
       EnsureReturned(c) /\ UNCHANGED <<signatureVars, apiVars>>
  \/ \E c \in MerchantCallers :
       MetadataResolved(c) /\ UNCHANGED <<signatureVars, apiVars>>
  \/ \E c \in MerchantCallers, ok \in BOOLEAN :
       ChannelResponded(c, ok, <<>>) /\ UNCHANGED <<signatureVars, apiVars>>
  \/ \E c \in MerchantCallers, outcome \in {"ok", "error"} :
       /\ ~ReactionsQueued
       /\ TokenListFetched(c, outcome)
       /\ UNCHANGED <<authVars, merchantVars, apiVars, signatureVars,
                      cachedTokenMap, lookup>>
  \/ \E c \in MerchantCallers :
       /\ ~ReactionsQueued
       /\ TokenListParsed(c, TRUE, "list-v1")
       /\ UNCHANGED <<authVars, merchantVars, apiVars, signatureVars,
                      cachedTokenMap, lookup>>
  \/ \E c \in MerchantCallers :
       TokenListReturned(c)
         /\ UNCHANGED <<authVars, merchantVars, apiVars, signatureVars>>
  \/ \E m \in Managers : loadPersistedAuth(m, TRUE) /\ UNCHANGED clientVars
  \/ \E e \in Episodes : RefreshGotAddress(e, TRUE) /\ UNCHANGED clientVars
  \/ \E e \in Episodes : RefreshSigned(e, TRUE) /\ UNCHANGED clientVars
  \/ \E e \in Episodes, x \in MerchantExpiresIn :
       RefreshExchanged(e, TRUE, IssuedToken(e), x) /\ UNCHANGED clientVars
  \/ \E e \in Episodes : PersistSkipped(e) /\ UNCHANGED clientVars
  \/ \E e \in Episodes : PersistKeyDerived(e, TRUE) /\ UNCHANGED clientVars
  \/ \E e \in Episodes, iv \in IVs :
       PersistEncrypted(e, iv, TRUE, TRUE) /\ UNCHANGED clientVars

SpecOverlap == InitOverlap /\ [][NextOverlap]_vars

\* Callers of verifySignature, over MaxDays cache lifetimes.  The instants
\* the clock takes are those around each lifetime's end.
Verifiers == {1, 2}
Instants ==
  {t \in {k * CACHE_TTL_MS + j : k \in 0..MaxDays, j \in {-1, 0, 1}} :
     t >= 0 /\ t <= MaxDays * CACHE_TTL_MS}
Entry(key) == <<key, IF key = "amount" THEN "100" ELSE "USDT">>
Payloads ==
  {[entries |-> <<Entry("amount"), Entry("currency")>>, circular |-> FALSE],
   [entries |-> <<Entry("currency"), Entry("amount")>>, circular |-> FALSE],
   [entries |-> <<>>, circular |-> TRUE]}
Operators == {"", "invalid-address", "0xOP1", "0xOP2"}
NextSignature ==
  \/ \E t \in Instants :
       Elapse(t) /\ UNCHANGED <<authVars, merchantVars, apiVars, tokenVars>>
  \/ \E c \in Verifiers, payload \in Payloads :
       verifySignature(c, payload)
         /\ UNCHANGED <<authVars, merchantVars, apiVars, tokenVars>>
  \/ \E c \in Verifiers, outcome \in {"ok", "notOk", "error"} :
       OperatorFetched(c, outcome)
         /\ UNCHANGED <<authVars, merchantVars, apiVars, tokenVars>>
  \/ \E c \in Verifiers, parsed \in BOOLEAN, operator \in Operators :
       OperatorParsed(c, parsed, operator)
         /\ UNCHANGED <<authVars, merchantVars, apiVars, tokenVars>>
  \/ \E c \in Verifiers, outcome \in {"true", "false", "throws"} :
       MessageVerified(c, outcome)
         /\ UNCHANGED <<authVars, merchantVars, apiVars, tokenVars>>
  \/ resetCacheForTesting
       /\ UNCHANGED <<authVars, merchantVars, apiVars, tokenVars>>

InitSignature ==
  /\ Init
  /\ hasWindow /\ hasLocalStorage
  /\ localStorage = NoItem

SpecSignature == InitSignature /\ [][NextSignature]_vars

\* Callers of getTokenList over MaxDays cache lifetimes; the remote file
\* holds one of two lists.
TokenCallers == {1, 2}
NextTokens ==
  \/ \E t \in Instants :
       Elapse(t) /\ UNCHANGED <<authVars, merchantVars, apiVars, tokenVars>>
  \/ \E c \in TokenCallers :
       getTokenList(c)
         /\ UNCHANGED <<authVars, merchantVars, apiVars, signatureVars,
                        cachedTokenMap, lookup>>
  \/ \E c \in TokenCallers, symbol \in {"TKN"} :
       getTokenBySymbol(c, symbol)
         /\ UNCHANGED <<authVars, merchantVars, apiVars, signatureVars>>
  \/ \E c \in TokenCallers, address \in {"0xT", "0xt"} :
       getTokenByAddress(c, address)
         /\ UNCHANGED <<authVars, merchantVars, apiVars, signatureVars>>
  \/ \E c \in TokenCallers, outcome \in {"ok", "notOk", "error"} :
       TokenListFetched(c, outcome)
         /\ UNCHANGED <<authVars, merchantVars, apiVars, signatureVars,
                        cachedTokenMap, lookup>>
  \/ \E c \in TokenCallers, parsed \in BOOLEAN, data \in TokenLists :
       TokenListParsed(c, parsed, data)
         /\ UNCHANGED <<authVars, merchantVars, apiVars, signatureVars,
                        cachedTokenMap, lookup>>
  \/ \E c \in TokenCallers :
       TokenListReturned(c)
         /\ UNCHANGED <<authVars, merchantVars, apiVars, signatureVars>>
  \/ \E c \in TokenCallers, ok \in BOOLEAN :
       ContractRead(c, ok, "TKN")
         /\ UNCHANGED <<authVars, merchantVars, apiVars, signatureVars>>

SpecTokens == InitSignature /\ [][NextTokens]_vars

\* An ApiClient used directly and by one AuthManager with signer 0xA,
\* outside a browser.  A response is ok or not, has a status line and a JSON
\* content type or another; an error body gives all of message, error and
\* statusCode or none of them.
ApiCallers == {1}
ConfigTimeouts == {NoTimeout, 100}
Methods == {"GET", "POST", "PUT", "DELETE"}
Bodies == {"object", "circular"}
Responses ==
  {[ok |-> TRUE, status |-> 200, statusText |-> "OK", json |-> TRUE],
   [ok |-> TRUE, status |-> 200, statusText |-> "OK", json |-> FALSE],
   [ok |-> FALSE, status |-> 401, statusText |-> "Unauthorized",
    json |-> TRUE],
   [ok |-> FALSE, status |-> 500, statusText |-> "", json |-> FALSE]}
ErrorBodies ==
  {[message |-> Text("Invalid signature"), error |-> "Unauthorized",
    statusCode |-> 401],
   [message |-> Text(""), error |-> "", statusCode |-> 0]}
FetchErrors ==
  {Error("TypeError", Text("Failed to fetch")), Error("TypeError", Text("")),
   NotAnError}
\* What a signer rejects with: an Error, or a value that is no Error.
SignErrors == {Error("Error", Text("User rejected")), NotAnError}
\* What a body read gives: for the POST /v1/auth of refresh e the
\* AuthResponse, else some text.
BodyOf(r) ==
  IF request[r].ep = 0 THEN Text("body")
  ELSE [token |-> IssuedToken(request[r].ep), expiresIn |-> 3600]

InitApi ==
  /\ InitAuthManager
  /\ ~hasWindow
  /\ NewMerchant(NoSigner)
  /\ NewSignatureModule
  /\ \E configured \in ConfigTimeouts :
       NewApiClient(ClientTimeout(configured))
  /\ NewTokenModule

NextApi ==
  \/ create(1, "0xA") /\ UNCHANGED clientVars
  \/ \E c \in ApiCallers :
       ensureAuthenticated(c, 1) /\ UNCHANGED clientVars
  \/ \E c \in ApiCallers : StarterResume(c) /\ UNCHANGED clientVars
  \/ \E e \in Episodes : RefreshGotAddress(e, TRUE) /\ UNCHANGED clientVars
  \/ \E e \in Episodes, ok \in BOOLEAN, error \in SignErrors :
       SignedAndPosted(e, ok, error)
  \/ \E e \in Episodes : PersistSkipped(e) /\ UNCHANGED clientVars
  \/ \E method \in Methods, body \in Bodies : ApiRequest(method, body)
  \/ \E r \in Requests : TimerFired(r)
  \/ \E r \in Requests, error \in FetchErrors : FetchRejected(r, error)
  \/ \E r \in Requests, response \in Responses :
       /\ request[r].ep # 0 /\ response.ok => response.json
       /\ FetchResolved(r, response)
  \/ \E r \in Requests, parsed \in BOOLEAN, data \in ErrorBodies :
       ErrorBodyRead(r, parsed, data)
  \/ \E r \in Requests, ok \in BOOLEAN : BodyRead(r, ok, BodyOf(r))

SpecApi == InitApi /\ [][NextApi]_vars

\* The page is reloaded (the process restarts): every AuthManager and every
\* pending call is gone, storage and the clock carry on, and the server keeps
\* issuing new tokens.
Reload ==
  /\ \E m \in SpecManagers : mstate[m] # "none"
  /\ storageOps' = [m \in Managers |-> NoOps]
  /\ mstate' = [m \in Managers |-> "none"]
  /\ signer' = [m \in Managers |-> NoSigner]
  /\ auth' = [m \in Managers |-> NoAuth]
  /\ refreshingToken' = [m \in Managers |-> 0]
  /\ loadData' = [m \in Managers |-> NoItem]
  /\ refresh' = [e \in Episodes |-> NoRefresh]
  /\ caller' = [c \in Callers |-> IdleCaller]
  /\ observed' = NoReturn
  /\ UNCHANGED <<hasWindow, hasLocalStorage, localStorage, now, nextEp>>
  /\ UNCHANGED clientVars

\* One AuthManager at a time, over successive sessions sharing one storage.
NextSessions == Next \/ Reload

SpecSessions == Init /\ [][NextSessions]_vars

TypeOK ==
  /\ now \in 0..(MaxTicks * MsPerSecond)
  /\ nextEp \in 1..(MaxEpisodes + 1)
  /\ \A m \in Managers : refreshingToken[m] \in 0..MaxEpisodes

\* ================================================================ claims
\* Steps in which caller c's pending ensureAuthenticated() call settles.
Settles(c) == caller[c].pc # "idle" /\ caller'[c].pc = "idle"
StarterSettles(c) == caller[c].pc = "started" /\ caller'[c].pc = "idle"
JoinerSettles(c) == caller[c].pc = "joined" /\ caller'[c].pc = "idle"

EnsureOps == {"nosigner", "fresh", "joined", "started"}

\* Refreshes of manager m whose promise has not settled.
InFlight(m) ==
  {e \in Episodes : refresh[e].mgr = m /\ refresh[e].promise = "pending"}

\* C1: callers that overlap a refresh share it.  An AuthManager never has two
\* unsettled refreshes, every caller waiting on an unsettled refresh waits on
\* the one refreshingToken names, and that refresh has asked for at most one
\* signature and sent at most one POST /v1/auth: exactly one of each once it
\* has succeeded.
C1_ConcurrentDedup ==
  /\ \A m \in Managers : Cardinality(InFlight(m)) <= 1
  /\ \A c \in Callers :
       (caller[c].pc # "idle" /\ ~Settled(caller[c].ep))
         => refreshingToken[caller[c].mgr] = caller[c].ep
  /\ \A e \in Episodes :
       /\ refresh[e].signCalls <= 1
       /\ refresh[e].postCalls <= 1
       /\ (refresh[e].promise = "fulfilled" /\ refresh[e].starterOutcome = "none")
            => (refresh[e].signCalls = 1 /\ refresh[e].postCalls = 1)

\* Two callers wait on one refresh that succeeded after one signature and
\* one POST.
C1_Witness ==
  \E c1, c2 \in Callers :
    /\ caller[c1].pc = "started"
    /\ caller[c2].pc = "joined"
    /\ caller[c1].ep = caller[c2].ep
    /\ refresh[caller[c1].ep].promise = "fulfilled"
    /\ refresh[caller[c1].ep].signCalls = 1
    /\ refresh[caller[c1].ep].postCalls = 1

\* C2: a caller that joined an in-flight refresh settles only in a step of its
\* own, taken after the refresh has settled and its starter has returned; it
\* gets the starter's outcome, and when that is success the Credential of
\* that refresh is held at that moment.
C2_JoinersShareOutcome ==
  [][ /\ (observed' # observed /\ observed'.op = "joined")
           => \E c \in Callers : JoinerSettles(c)
      /\ \A c \in Callers :
           JoinerSettles(c) =>
             LET e == caller[c].ep
                 m == caller[c].mgr
             IN /\ Settled(e)
                /\ refresh[e].starterOutcome # "none"
                /\ observed'.op = "joined"
                /\ observed'.result = refresh[e].starterOutcome
                /\ (refresh[e].promise = "fulfilled")
                     <=> (observed'.result = "resolved")
                /\ (observed'.result = "resolved")
                     => (auth'[m] # NoAuth /\ auth'[m].token = IssuedToken(e))
    ]_vars

\* A joiner has resolved while the refreshed Credential is held.
C2_Witness ==
  /\ observed.op = "joined"
  /\ observed.result = "resolved"
  /\ auth[observed.mgr] # NoAuth

\* C3: whenever ensureAuthenticated() resolves, no signer is configured or a
\* Credential with expiredAt > now is held at that moment.
C3_ResolvedImpliesUnexpired ==
  [][ (observed' # observed /\ observed'.op \in EnsureOps
         /\ observed'.result = "resolved")
        => \/ signer'[observed'.mgr] = NoSigner
           \/ /\ auth'[observed'.mgr] # NoAuth
              /\ auth'[observed'.mgr].expiredAt > now'
    ]_vars

\* C4: once the call that started a refresh has settled, with success or with
\* failure, refreshingToken no longer names that refresh; and a call made
\* with a signer, without an unexpired Credential and with no refresh of the
\* manager outstanding starts a new refresh at signer.getAddress().
C4_MarkerCleared ==
  [][ /\ \A e \in Episodes :
           refresh'[e].starterOutcome # "none"
             => refreshingToken'[refresh'[e].mgr] # e
      /\ \A c \in Callers, m \in Managers :
           (/\ ensureAuthenticated(c, m)
            /\ signer[m] # NoSigner
            /\ ~(auth[m] # NoAuth /\ auth[m].expiredAt > now)
            /\ \A e \in Episodes :
                 refresh[e].mgr = m => refresh[e].starterOutcome # "none")
             => /\ nextEp' = nextEp + 1
                /\ refreshingToken'[m] = nextEp
                /\ refresh'[nextEp].pc = "getAddress"
                /\ refresh'[nextEp].promise = "pending"
                /\ refresh'[nextEp].signCalls = 0
                /\ refresh'[nextEp].postCalls = 0
    ]_vars

\* After a failed refresh has been surfaced, a second one is under way.
C4_Witness ==
  \E e1, e2 \in Episodes :
    /\ e1 # e2
    /\ refresh[e1].starterOutcome = "rejected"
    /\ refresh[e2].pc = "signMessage"
    /\ refreshingToken[refresh[e2].mgr] = e2

\* C5: when a refresh fails, because the signer refuses to sign or the
\* POST /v1/auth exchange fails, the calls waiting on it reject and
\* afterwards no Credential is held and getAuthToken() returns undefined,
\* whatever was held before.
C5_FailureLeavesNoCredential ==
  [][ \A c \in Callers :
        (Settles(c) /\ refresh[caller[c].ep].promise = "rejected")
          => /\ observed'.result = "rejected"
             /\ auth'[caller[c].mgr] = NoAuth
             /\ TokenOf(auth'[caller[c].mgr]) = Undefined
    ]_vars

\* C6: no retry.  A refresh starts only in a step in which a caller enters
\* ensureAuthenticated(); a refresh never asks for a second signature nor
\* sends a second POST; a refresh that has failed stays failed and its
\* failure is what every call waiting on it gets.
C6_NoRetry ==
  [][ /\ (nextEp' # nextEp)
           => \E c \in Callers :
                /\ caller[c].pc = "idle"
                /\ caller'[c].pc = "started"
                /\ caller'[c].ep = nextEp
                /\ nextEp' = nextEp + 1
      /\ \A e \in Episodes :
           /\ refresh'[e].signCalls <= 1
           /\ refresh'[e].postCalls <= 1
           /\ (refresh[e].promise = "rejected")
                => /\ refresh'[e].promise = "rejected"
                   /\ refresh'[e].pc = "done"
                   /\ refresh'[e].signCalls <= refresh[e].signCalls
                   /\ refresh'[e].postCalls <= refresh[e].postCalls
      /\ \A c \in Callers :
           (Settles(c) /\ refresh[caller[c].ep].promise = "rejected")
             => observed'.result = "rejected"
    ]_vars

\* The first refresh failed, its starter has been told of the rejection, and
\* no second refresh has been started.
C6_Witness ==
  /\ refresh[1].starterOutcome = "rejected"
  /\ observed.op = "started"
  /\ observed.result = "rejected"
  /\ nextEp = 2
  /\ \A m \in Managers : refreshingToken[m] = 0

\* C7: an AuthManager created without a signer never touches storage, never
\* starts a refresh (no signature request, no POST), holds no Credential, and
\* its calls return at once: ensureAuthenticated() resolved, getAuthToken()
\* undefined.
C7_NoSignerNoOp ==
  \A m \in Managers :
    (mstate[m] # "none" /\ signer[m] = NoSigner)
      => /\ mstate[m] = "ready"
         /\ storageOps[m] = NoOps
         /\ \A e \in Episodes : refresh[e].mgr # m
         /\ refreshingToken[m] = 0
         /\ auth[m] = NoAuth
         /\ \A c \in Callers : caller[c].mgr = m => caller[c].pc = "idle"
         /\ (observed.mgr = m /\ observed.op = "getAuthToken")
              => observed.result = Undefined
         /\ (observed.mgr = m /\ observed.op \in EnsureOps)
              => (observed.op = "nosigner" /\ observed.result = "resolved")

\* In a browser whose storage holds a record, a manager without signer has
\* answered ensureAuthenticated().
C7_Witness ==
  /\ isBrowser
  /\ localStorage = ValidItem
  /\ \E m \in Managers :
       /\ signer[m] = NoSigner
       /\ observed = Return(m, "nosigner", "resolved")

\* C8: a call of ensureAuthenticated() made while a Credential with
\* now < expiredAt is held resolves at once and changes neither the
\* Credential nor the in-flight marker nor any refresh nor storage.
C8_FreshReuse ==
  [][ \A c \in Callers, m \in Managers :
        (/\ ensureAuthenticated(c, m)
         /\ signer[m] # NoSigner
         /\ auth[m] # NoAuth
         /\ now < auth[m].expiredAt)
          => /\ observed' = Return(m, "fresh", "resolved")
             /\ UNCHANGED <<auth, refreshingToken, refresh, nextEp, caller,
                            localStorage, storageOps>>
    ]_vars

\* A call has returned on the fresh path and the Credential is still unexpired.
C8_Witness ==
  /\ observed.op = "fresh"
  /\ auth[observed.mgr] # NoAuth
  /\ auth[observed.mgr].expiredAt > now

\* C9: when the call that started a refresh resolves, that refresh has sent
\* exactly one POST /v1/auth, it was started without an unexpired Credential,
\* and getAuthToken() now returns the token that exchange delivered.
C9_RefreshInstallsToken ==
  [][ \A c \in Callers :
        (StarterSettles(c) /\ refresh[caller[c].ep].promise = "fulfilled")
          => LET e == caller[c].ep
                 m == caller[c].mgr
             IN /\ observed' = Return(m, "started", "resolved")
                /\ refresh[e].postCalls = 1
                /\ refresh[e].signCalls = 1
                /\ refresh[e].cred # NoAuth
                /\ TokenOf(auth'[m]) = refresh[e].cred.token
                /\ refresh[e].cred.token = IssuedToken(e)
    ]_vars

\* A starter has resolved after an expired Credential was replaced.
C9_Witness ==
  /\ observed.op = "started"
  /\ observed.result = "resolved"
  /\ auth[observed.mgr] # NoAuth
  /\ auth[observed.mgr].token = IssuedToken(2)

\* C10: a step in which getAuthToken() returns yields the held token, or
\* undefined when no Credential is held, and changes nothing else: not the
\* Credential, the in-flight marker, any refresh, a caller or storage.
C10_GetAuthTokenPure ==
  [][ (observed' # observed /\ observed'.op = "getAuthToken")
        => /\ observed'.result = TokenOf(auth[observed'.mgr])
           /\ UNCHANGED <<auth, refreshingToken, refresh, nextEp, caller,
                          localStorage, storageOps, mstate, signer, now>>
    ]_vars

\* getAuthToken() has returned an expired token while a refresh is in flight.
C10_Witness ==
  /\ observed.op = "getAuthToken"
  /\ observed.result # Undefined
  /\ auth[observed.mgr] # NoAuth
  /\ auth[observed.mgr].expiredAt <= now
  /\ refreshingToken[observed.mgr] # 0

\* C11: when signing and the exchange have succeeded and persisting the
\* Credential then fails (key derivation, encryption or the storage write),
\* the refresh is fulfilled with storage and the new Credential untouched,
\* and every call waiting on that refresh resolves with that Credential held.
C11_PersistFailureNonFatal ==
  [][ /\ \A e \in Episodes :
           (refresh[e].persist = "none" /\ refresh'[e].persist = "failed")
             => /\ refresh'[e].promise = "fulfilled"
                /\ refresh[e].postCalls = 1
                /\ localStorage' = localStorage
                /\ auth'[refresh[e].mgr] = refresh[e].cred
                /\ auth'[refresh[e].mgr].token = IssuedToken(e)
      /\ \A c \in Callers :
           (Settles(c) /\ refresh[caller[c].ep].persist = "failed")
             => /\ observed'.result = "resolved"
                /\ auth'[caller[c].mgr] # NoAuth
                /\ auth'[caller[c].mgr].token = IssuedToken(caller[c].ep)
    ]_vars

\* The storage write threw, and a caller that had joined that refresh has
\* resolved with the new Credential held and nothing stored.
C11_Witness ==
  /\ observed.op = "joined"
  /\ observed.result = "resolved"
  /\ \E e \in Episodes :
       /\ refresh[e].persist = "failed"
       /\ refresh[e].mgr = observed.mgr
       /\ auth[observed.mgr] # NoAuth
       /\ auth[observed.mgr].token = IssuedToken(e)
  /\ storageOps[observed.mgr].setItem = 1
  /\ localStorage = NoItem

\* Steps in which manager m's create() resolves.
CreateResolves(m) == mstate[m] # "ready" /\ mstate'[m] = "ready"

\* The item create() of manager m works on: the one in storage when it is
\* called, the one it has read when loadPersistedAuth resumes.
ItemRead(m) == IF mstate[m] = "none" THEN localStorage ELSE loadData[m]

\* An item that is not a well-formed record for address: a field is missing,
\* the ciphertext does not decrypt, or the plaintext does not parse.
NotWellFormed(data, address) ==
  /\ data # NoItem
  /\ data # EmptyString
  /\ (InvalidFormat(data) \/ ~Parses(data, address))

BadPaths == {"malformed", "nokey", "undecryptable", "unparseable"}

\* C12: when create() of a manager with a signer, in a browser, finds an item
\* that is not well-formed, it resolves through the catch block holding no
\* Credential and with the item removed; the ensureAuthenticated() that
\* follows starts an ordinary refresh (calls made while it is in flight join
\* it), which when the signer and the server answer ends fulfilled after one
\* POST /v1/auth, and its starter resolves.
C12_CorruptRecordRecovery ==
  [][ /\ \A m \in Managers :
           (/\ CreateResolves(m)
            /\ isBrowser
            /\ signer'[m] # NoSigner
            /\ NotWellFormed(ItemRead(m), signer'[m]))
             => /\ observed'.op = "create"
                /\ observed'.result = "resolved"
                /\ observed'.path \in BadPaths
                /\ auth'[m] = NoAuth
                /\ localStorage' = NoItem
                /\ storageOps'[m].removeItem = storageOps[m].removeItem + 1
      /\ \A c \in Callers, m \in Managers :
           (/\ observed.op = "create"
            /\ observed.mgr = m
            /\ observed.path \in BadPaths)
             => /\ (ensureAuthenticated(c, m) /\ refreshingToken[m] = 0)
                     => /\ caller'[c] = [pc |-> "started", mgr |-> m,
                                          ep |-> nextEp]
                        /\ refresh'[nextEp].pc = "getAddress"
                        /\ refresh'[nextEp].promise = "pending"
                        /\ refresh'[nextEp].postCalls = 0
                /\ \A e \in Episodes :
                     (refresh[e].mgr = m /\ refresh[e].promise = "fulfilled")
                       => /\ refresh[e].postCalls = 1
                          /\ auth[m] # NoAuth
                          /\ auth[m].token = IssuedToken(e)
                /\ (StarterSettles(c) /\ caller[c].mgr = m
                      /\ refresh[caller[c].ep].promise = "fulfilled")
                     => observed' = Return(m, "started", "resolved")
    ]_vars

\* create() dropped a string without delimiter, and the refresh started by
\* the next ensureAuthenticated() has been fulfilled after one POST.
C12_Witness ==
  /\ observed.op = "create"
  /\ observed.path = "malformed"
  /\ localStorage # NoItem
  /\ \E c \in Callers :
       /\ caller[c].pc = "started"
       /\ caller[c].mgr = observed.mgr
       /\ refresh[caller[c].ep].promise = "fulfilled"
       /\ refresh[caller[c].ep].postCalls = 1

\* C13: when create() has decrypted and parsed the persisted record, it
\* installs it exactly when its expiredAt > now and otherwise holds no
\* Credential and removes the record; so a Credential held when create()
\* resolves is unexpired.
C13_LoadOnlyUnexpired ==
  [][ \A m \in Managers :
        CreateResolves(m)
          => /\ auth'[m] # NoAuth => auth'[m].expiredAt > now'
             /\ observed'.path \in {"installed", "expired"}
                  => LET a == PersistedAuth(loadData[m], signer[m])
                     IN /\ a # NoAuth
                        /\ IF a.expiredAt > now
                             THEN /\ auth'[m] = a
                                  /\ observed'.path = "installed"
                                  /\ UNCHANGED <<localStorage, storageOps>>
                             ELSE /\ auth'[m] = NoAuth
                                  /\ observed'.path = "expired"
                                  /\ localStorage' = NoItem
                                  /\ storageOps'[m].removeItem = 1
    ]_vars

\* A record that was valid when written is read after it has expired:
\* create() resolved with nothing held and the record gone.
C13_Witness ==
  /\ observed.op = "create"
  /\ observed.path = "expired"
  /\ now > 0
  /\ auth[observed.mgr] = NoAuth
  /\ localStorage = NoItem
  /\ storageOps[observed.mgr].removeItem = 1

\* Clock values and the Credentials a record can hold.
Times == {k * MsPerSecond : k \in 0..MaxTicks}
KnownAuths ==
  {Auth(OldToken, 0), Auth(OldToken, MsPerSecond)}
    \cup {Auth(IssuedToken(e), t + (x - bufferSeconds) * MsPerSecond) :
            e \in Episodes, t \in Times, x \in ExpiresInValues}

\* C14: persistAuth stores the held Credential under the signer's address;
\* a create() with a signer of the same address that reads such a record
\* while it is unexpired (and whose signer gives its address) installs a
\* Credential with the same token and expiredAt and leaves the record in
\* place; getAuthToken(), called before any refresh of that manager, then
\* returns that token, and neither step starts a refresh.
C14_PersistRoundTrip ==
  [][ /\ \A e \in Episodes :
           (refresh[e].pc = "persistEncrypt" /\ localStorage' # localStorage)
             => /\ auth[refresh[e].mgr] \in KnownAuths
                /\ \E iv \in IVs :
                     localStorage' = PersistedString(signer[refresh[e].mgr], iv,
                                                     auth[refresh[e].mgr])
      /\ \A m \in Managers, A \in Addresses, iv \in IVs, a \in KnownAuths :
           (/\ CreateResolves(m)
            /\ isBrowser
            /\ signer'[m] = A
            /\ ItemRead(m) = PersistedString(A, iv, a)
            /\ a.expiredAt > now
            /\ observed'.path # "nokey")
             => /\ auth'[m] = a
                /\ observed'.path = "installed"
                /\ UNCHANGED <<localStorage, refresh, nextEp>>
      /\ \A m \in Managers :
           (/\ observed.op = "create"
            /\ observed.mgr = m
            /\ observed.path = "installed"
            /\ \A e \in Episodes : refresh[e].mgr # m
            /\ getAuthToken(m))
             => /\ \E A \in Addresses, iv \in IVs :
                     observed.item = PersistedString(A, iv, auth[m])
                /\ observed'.result = auth[m].token
                /\ UNCHANGED <<refresh, nextEp, localStorage>>
    ]_vars

\* In a session after the one that obtained and stored token 1,
\* getAuthToken() has returned token 1 and no refresh has been started.
C14_Witness ==
  /\ nextEp = 2
  /\ \A e \in Episodes : refresh[e] = NoRefresh
  /\ observed.op = "getAuthToken"
  /\ observed.result = IssuedToken(1)
  /\ auth[observed.mgr] # NoAuth
  /\ auth[observed.mgr].token = IssuedToken(1)
  /\ storageOps[observed.mgr].setItem = 0

\* C15: a create() with signer address B that reads a record stored under
\* another address A resolves holding no Credential, with the record
\* removed; and a Credential held when create() resolves always comes from a
\* record stored under the manager's own address.
C15_OtherIdentityRejected ==
  [][ \A m \in Managers :
        (CreateResolves(m) /\ isBrowser)
          => /\ \A A \in Addresses, iv \in IVs, a \in KnownAuths :
                  (/\ signer'[m] \in Addresses
                   /\ signer'[m] # A
                   /\ ItemRead(m) = PersistedString(A, iv, a))
                    => /\ auth'[m] = NoAuth
                       /\ localStorage' = NoItem
                       /\ storageOps'[m].removeItem = 1
                       /\ observed'.op = "create"
                       /\ observed'.result = "resolved"
                       /\ observed'.path \in {"nokey", "undecryptable"}
             /\ auth'[m] # NoAuth
                  => \E iv \in IVs :
                       ItemRead(m) = PersistedString(signer'[m], iv, auth'[m])
    ]_vars

\* A session under address 0xB has read the record a session under 0xA
\* stored for token 1: nothing is held and the record is gone.
C15_Witness ==
  /\ observed.op = "create"
  /\ observed.path = "undecryptable"
  /\ signer[observed.mgr] = "0xB"
  /\ \E a \in KnownAuths :
       /\ a.token = IssuedToken(1)
       /\ a.expiredAt > now
       /\ observed.item = PersistedString("0xA", 1, a)
  /\ auth[observed.mgr] = NoAuth
  /\ localStorage = NoItem

\* C16: where window or localStorage is missing, no manager ever reads,
\* writes or removes a storage item and storage never changes, whatever is
\* called; a refresh that succeeds skips persistence, each call waiting on
\* it resolves with its token held, and getAuthToken() returns the held
\* token.
C16_NonBrowserSkipsStorage ==
  [][ ~(hasWindow /\ hasLocalStorage)
        => /\ \A m \in Managers : storageOps'[m] = NoOps
           /\ localStorage' = localStorage
           /\ \A c \in Callers :
                (Settles(c) /\ refresh[caller[c].ep].promise = "fulfilled")
                  => /\ refresh[caller[c].ep].persist = "skipped"
                     /\ observed'.result = "resolved"
                     /\ TokenOf(auth'[caller[c].mgr])
                          = IssuedToken(caller[c].ep)
           /\ (observed' # observed /\ observed'.op = "getAuthToken")
                => observed'.result = TokenOf(auth'[observed'.mgr])
    ]_vars

\* Without window, beside a storage holding a record, a manager has
\* refreshed and getAuthToken() has returned the new token; storage was
\* never touched.
C16_Witness ==
  /\ ~hasWindow
  /\ localStorage = ValidItem
  /\ observed.op = "getAuthToken"
  /\ observed.result = IssuedToken(1)
  /\ signer[observed.mgr] # NoSigner
  /\ refresh[1].starterOutcome = "resolved"
  /\ storageOps[observed.mgr] = NoOps

\* C17: when the exchange answers {token, expiresIn} at clock value t, the
\* Credential then held has that token and expiredAt = t + (expiresIn - 60)
\* * 1000; so at every time T at which it counts as usable (T < expiredAt),
\* at least 60 seconds of the lifetime t + expiresIn * 1000 remain.
C17_ExpiryBuffer ==
  [][ \A e \in Episodes, x \in ExpiresInValues :
        RefreshExchanged(e, TRUE, IssuedToken(e), x)
          => LET a == auth'[refresh[e].mgr]
                 t == now
             IN /\ a # NoAuth
                /\ a.token = IssuedToken(e)
                /\ a.expiredAt = t + (x - 60) * 1000
                /\ \A T \in Times \cup {a.expiredAt - 1, a.expiredAt} :
                     T < a.expiredAt
                       => (t + x * 1000) - T >= 60 * 1000
    ]_vars

\* A response with a lifetime of 3600 seconds was processed at clock value
\* 1000: the Credential held expires at 3541000.
C17_Witness ==
  /\ now = MsPerSecond
  /\ \E e \in Episodes :
       /\ refresh[e].pc \in {"persistKey", "persistSkip"}
       /\ auth[refresh[e].mgr] = refresh[e].cred
       /\ refresh[e].cred.token = IssuedToken(e)
       /\ refresh[e].cred.expiredAt = now + 3540 * MsPerSecond

\* The exchange of refresh e has completed: its response has been processed.
ExchangeDone(e) ==
  \/ refresh[e].promise = "fulfilled"
  \/ refresh[e].pc \in {"persistSkip", "persistKey", "persistEncrypt"}

\* Calls whose ensureAuthenticated() waited for a refresh: the Merchant has
\* a signer and held no token, or an expired one, when they were made.
Refreshing(c) == call[c].pc # "idle" /\ call[c].ep # 0

\* C18 as claimed: a createPayment or queryPayments call that had to wait for
\* a refresh hands its channel request to apiClient only after that
\* refresh's exchange has completed, and the request's authorization header
\* is exactly the token that exchange returned.
C18_HeaderIsOwnExchange ==
  \A c \in Callers :
    (Refreshing(c) /\ call[c].pc \in {"metadata", "request"})
      => /\ refresh[call[c].ep].promise = "fulfilled"
         /\ call[c].pc = "request"
              => call[c].authorization = IssuedToken(call[c].ep)

\* C18 amended: such a call sends its channel request only after the
\* exchange of the refresh it waited for has completed.  The header of
\* queryPayments is the token of that exchange; the header of createPayment
\* is the token held when the request is built, which is the token of that
\* exchange or of a later completed exchange of the same AuthManager.
C18_HeaderAfterExchange ==
  \A c \in Callers :
    (Refreshing(c) /\ call[c].pc \in {"metadata", "request"})
      => /\ refresh[call[c].ep].promise = "fulfilled"
         /\ refresh[call[c].ep].mgr = call[c].mgr
         /\ call[c].pc = "request"
              => /\ \E e \in Episodes :
                      /\ e >= call[c].ep
                      /\ refresh[e].mgr = call[c].mgr
                      /\ ExchangeDone(e)
                      /\ call[c].authorization = IssuedToken(e)
                 /\ call[c].op = "queryPayments"
                      => call[c].authorization = IssuedToken(call[c].ep)

\* A createPayment and a queryPayments call that waited for the same refresh
\* have both sent their request with that refresh's token.
C18_Witness ==
  \E c1, c2 \in Callers :
    /\ call[c1].op = "createPayment"
    /\ call[c2].op = "queryPayments"
    /\ call[c1].pc = "request"
    /\ call[c2].pc = "request"
    /\ call[c1].ep = 1
    /\ call[c2].ep = 1
    /\ call[c1].authorization = IssuedToken(1)
    /\ call[c2].authorization = IssuedToken(1)

\* Steps in which c's call finds that the ensureAuthenticated() it calls
\* has returned at once, and steps in which it hands over its channel
\* request.
PassesAtOnce(c) ==
  /\ call[c].pc = "manager"
  /\ call'[c].pc = "ensured"
SendsRequest(c) == call[c].pc # "request" /\ call'[c].pc = "request"

C20_NoSignerUnauthenticated ==
  (config.signer = NoSigner)
    => /\ nextEp = 1
       /\ \A e \in Episodes : refresh[e] = NoRefresh
       /\ \A m \in Managers : storageOps[m] = NoOps /\ auth[m] = NoAuth
       /\ \A c \in Callers :
            /\ call[c].pc \notin {"ensuring", "ensureFailed"}
            /\ call[c].ep = 0
            /\ call[c].pc = "request"
                 => /\ call[c].op # "queryPayments"
                    /\ call[c].authorization = Undefined

\* In a browser whose storage holds a record, a Merchant without signer has
\* sent a createPayment request.
C20_Witness ==
  /\ config.signer = NoSigner
  /\ isBrowser
  /\ localStorage = ValidItem
  /\ \E c \in Callers :
       /\ call[c].pc = "request"
       /\ call[c].op = "createPayment"
       /\ call[c].authorization = Undefined

\* An amount that is missing, that does not parse to a number, or that
\* parses to a number that is not positive.
BadAmount(params) ==
  \/ params.amount = Undefined
  \/ params.amount = String(<<>>)
  \/ parseFloat(params.amount) = NaN
  \/ parseFloat(params.amount).value <= 0

\* The call of op rejects with a ValidationError and nothing else happens:
\* no AuthManager is created, no storage access, no refresh (signature
\* request, POST /v1/auth), no channel request.
RejectedUntouched(op) ==
  /\ observed' = Return(0, op, "ValidationError")
  /\ UNCHANGED <<localStorage, storageOps, mstate, signer, auth,
                 refreshingToken, loadData, refresh, nextEp, caller, call,
                 authManager, request, tokenCall, lookup>>

\* The payment parameters whose amount is missing, non-numeric or not
\* positive.
BadParams == {params \in PaymentParams : BadAmount(params)}

\* The step is idle caller c calling op: it either registers the call or
\* returns op's result at once.
CallStep(c, op) ==
  /\ call[c].pc = "idle"
  /\ caller[c].pc = "idle"
  /\ \/ call'[c].pc # "idle" /\ call'[c].op = op
     \/ observed' # observed /\ observed'.op = op

\* C21: queryPayments on a Merchant without signer, getPayment with an
\* empty id, and createPayment with a missing, non-numeric or non-positive
\* amount reject with ValidationError in the step of the call itself, which
\* makes no network request, no signature request and no storage access.
C21_ValidationPrecedesIO ==
  [][ \A c \in Callers :
        /\ CallStep(c, "createPayment")
             => \/ RejectedUntouched("createPayment")
                \/ \A params \in BadParams : ~createPayment(c, params)
        /\ (config.signer = NoSigner /\ queryPayments(c))
             => RejectedUntouched("queryPayments")
        /\ getPayment(c, "") => RejectedUntouched("getPayment")
    ]_vars

\* A Merchant with a signer, in a browser whose storage holds a record, has
\* rejected a createPayment call; no AuthManager exists and storage was not
\* read.
C21_Witness ==
  /\ observed = Return(0, "createPayment", "ValidationError")
  /\ config.signer = "0xA"
  /\ isBrowser
  /\ localStorage = ValidItem
  /\ authManager = 0
  /\ \A m \in Managers : mstate[m] = "none" /\ storageOps[m] = NoOps
  /\ \A c \in Callers : call[c].pc = "idle"

\* C22: once a call has fetched the operator address successfully, every
\* verifySignature call that starts less than 24 hours after that fetch was
\* made (with an address still cached) performs no fetch, uses the cached
\* address, and still runs verifyMessage.
C22_CachedWithinTtl ==
  [][ \A c, d \in Verifiers, payload \in Payloads :
        (/\ verifySignature(c, payload)
         /\ verify[d].fetch = "ok"
         /\ cachedOperatorAddress # NoAddress
         /\ now - verify[d].now < 24 * 60 * 60 * 1000)
          => /\ verify'[c].fetch = "none"
             /\ verify'[c].address = cachedOperatorAddress
             /\ ~payload.circular => verify'[c].pc = "verifyMessage"
    ]_vars

\* C23: when a fetch fails (the request fails, the status is not ok, the
\* body does not parse or its operator is invalid) while an address is
\* cached, the call verifies against the cached address, whatever its age.
C23_StaleCacheFallback ==
  [][ \A c \in Verifiers :
        (/\ verify[c].pc \in {"fetch", "json"}
         /\ verify'[c].fetch = "failed"
         /\ cachedOperatorAddress # NoAddress)
          => /\ verify'[c].address = cachedOperatorAddress
             /\ ~verify[c].payload.circular
                  => verify'[c].pc = "verifyMessage"
    ]_vars

\* A call made 24 hours or more after the cached address was fetched, whose
\* own fetch failed, is verifying against the cached address.
C23_Witness ==
  \E c \in Verifiers :
    /\ verify[c].pc = "verifyMessage"
    /\ verify[c].fetch = "failed"
    /\ verify[c].now - lastFetchTime >= 24 * 60 * 60 * 1000
    /\ cachedOperatorAddress # NoAddress
    /\ verify[c].address = cachedOperatorAddress

\* C24: verifySignature never rejects; it resolves to false when its fetch
\* failed with nothing cached and when verifyMessage throws.
C24_NeverRejects ==
  [][ \A c \in Verifiers :
        /\ verify'[c].result \in {"none", "true", "false"}
        /\ (/\ verify[c].pc \in {"fetch", "json"}
            /\ verify'[c].fetch = "failed"
            /\ cachedOperatorAddress = NoAddress)
             => verify'[c].pc = "idle" /\ verify'[c].result = "false"
        /\ MessageVerified(c, "throws")
             => verify'[c].pc = "idle" /\ verify'[c].result = "false"
    ]_vars

\* One call has resolved to false for want of an operator address, another
\* after verifyMessage was called with a fetched address.
C24_Witness ==
  \E c, d \in Verifiers :
    /\ verify[c].pc = "idle"
    /\ verify[c].fetch = "failed"
    /\ verify[c].address = NoAddress
    /\ verify[c].result = "false"
    /\ verify[d].pc = "idle"
    /\ verify[d].fetch = "ok"
    /\ verify[d].result = "false"

\* C25: the message verifySignature passes to verifyMessage is the
\* serialization of the payload with its top-level keys sorted, whatever the
\* order in which the keys were inserted.
C25_MessageKeysSorted ==
  [][ \A c \in Verifiers :
        (verify[c].pc # "verifyMessage" /\ verify'[c].pc = "verifyMessage")
          => verify'[c].message = StringifySorted(verify'[c].payload)
    ]_vars

\* C26: every failure of ApiClient.request is an ApiError; no other kind
\* of error escapes.
C26_FailuresAreApiErrors ==
  \A r \in Requests :
    (request[r].pc = "done" /\ request[r].outcome.kind = "error")
      => request[r].outcome.error.name = "ApiError"

\* What ensureAuthenticated() rejects with when the exchange timed out.
TimeoutMessage == [text |-> "Request timed out after ms", ms |-> timeout]
AuthenticationTimedOut ==
  [name |-> "Error",
   message |-> [text |-> "Authentication failed: ", cause |-> TimeoutMessage]]

\* C27: when the timeout elapses before fetch has settled, the request is
\* aborted and fails with ApiError(408, TimeoutError) whose message carries
\* the configured timeout; if it is the POST /v1/auth of a refresh, the
\* refresh promise rejects with "Authentication failed: " followed by that
\* message, and every ensureAuthenticated() call awaiting it rejects.  Once
\* fetch has settled, on every path, the timer has been cleared; a post or
\* put that failed to serialise its body never set one.
C27_TimeoutSurfaces ==
  [][ /\ \A r \in Requests :
           /\ (request[r].timer = "armed" /\ request'[r].aborted)
                => /\ request'[r].pc = "done"
                   /\ request'[r].outcome =
                        [kind |-> "error",
                         error |-> [name |-> "ApiError",
                                    message |-> TimeoutMessage,
                                    statusCode |-> 408,
                                    errorType |-> "TimeoutError"]]
                   /\ request[r].ep # 0
                        => /\ refresh'[request[r].ep].promise = "rejected"
                           /\ thrown'[request[r].ep] = AuthenticationTimedOut
           /\ request'[r].pc \in {"errorBody", "body", "done"}
                => request'[r].timer =
                     IF request'[r].outcome = Thrown(StringifyError)
                       THEN "none" ELSE "cleared"
      /\ \A c \in Callers :
           (Settles(c) /\ thrown[caller[c].ep] = AuthenticationTimedOut)
             => /\ observed'.result = "rejected"
                /\ observed'.mgr = caller[c].mgr
    ]_vars

\* An ensureAuthenticated() call has rejected after the POST /v1/auth of its
\* refresh timed out under a configured timeout of 100 ms.
C27_Witness ==
  /\ timeout = 100
  /\ observed = Return(1, "started", "rejected")
  /\ \E r \in Requests :
       /\ request[r].pc = "done"
       /\ request[r].ep # 0
       /\ request[r].aborted
       /\ request[r].timer = "cleared"
       /\ request[r].outcome.error.errorType = "TimeoutError"
       /\ thrown[request[r].ep] = AuthenticationTimedOut
       /\ \A c \in Callers : caller[c].pc = "idle"

\* C28: an AuthManager has at most one refresh in flight.  A refresh starts
\* only when the manager has no unsettled refresh and names none; a signature
\* request or a POST /v1/auth is made only by the refresh refreshingToken
\* names while no other refresh of the manager is unsettled; and the held
\* Credential of a constructed manager is written only by that one refresh.
C28_OneRefreshAtATime ==
  [][\A m \in Managers :
       /\ \A e \in Episodes :
            /\ (refresh[e].mgr # m /\ refresh'[e].mgr = m)
                 => (InFlight(m) = {} /\ refreshingToken[m] = 0)
            /\ (/\ refresh'[e].mgr = m
                /\ \/ refresh'[e].signCalls > refresh[e].signCalls
                   \/ refresh'[e].postCalls > refresh[e].postCalls)
                 => (InFlight(m) = {e} /\ refreshingToken[m] = e)
       /\ (mstate[m] = "ready" /\ auth'[m] # auth[m])
            => \E e \in Episodes :
                 /\ InFlight(m) = {e}
                 /\ refreshingToken[m] = e
                 /\ refresh[e].pc = "post"]_vars

\* A manager's second refresh has written the Credential while a second
\* caller waits on it; its first refresh settled before.
C28_Witness ==
  \E m \in Managers : \E e1, e2 \in Episodes : \E c1, c2 \in Callers :
    /\ e1 < e2
    /\ refresh[e1].mgr = m /\ Settled(e1)
    /\ refresh[e2].mgr = m /\ refresh[e2].promise = "pending"
    /\ refresh[e2].postCalls = 1
    /\ auth[m] # NoAuth /\ auth[m].token = IssuedToken(e2)
    /\ caller[c1].pc = "started" /\ caller[c1].ep = e2
    /\ caller[c2].pc = "joined" /\ caller[c2].ep = e2

\* The order of refreshAuthToken's steps: each pair is a step of one episode
\* from the left position to the right one.
EpisodeOrder ==
  {<<"none", "getAddress">>, <<"none", "done">>,
   <<"getAddress", "signMessage">>, <<"getAddress", "done">>,
   <<"signMessage", "post">>, <<"signMessage", "done">>,
   <<"post", "persistSkip">>, <<"post", "persistKey">>, <<"post", "done">>,
   <<"persistSkip", "done">>,
   <<"persistKey", "persistEncrypt">>, <<"persistKey", "done">>,
   <<"persistEncrypt", "done">>}

Persisting == {"persistSkip", "persistKey", "persistEncrypt"}

\* C29: the steps of a refresh episode happen in order.  The signer is asked
\* to sign only once its address is known, and what it signs is the challenge
\* built from that address; POST /v1/auth is sent only after the signature
\* arrived, with exactly that challenge and the signature over it; the held
\* Credential is unchanged until the exchange has succeeded and is the
\* exchanged one when persistence begins; and storage is written only by an
\* episode whose Credential is already set.
C29_EpisodeOrder ==
  [][\A e \in Episodes : \A m \in Managers :
       refresh'[e].mgr = m =>
          /\ refresh'[e].pc # refresh[e].pc
               => <<refresh[e].pc, refresh'[e].pc>> \in EpisodeOrder
          /\ refresh'[e].signCalls > refresh[e].signCalls
               => /\ refresh[e].pc = "getAddress"
                  /\ refresh'[e].pc = "signMessage"
                  /\ \E nonce \in Nonces :
                       refresh'[e].message =
                         prepareSiweMessage(signer[m], nonce)
          /\ refresh'[e].postCalls > refresh[e].postCalls
               => /\ refresh[e].pc = "signMessage"
                  /\ refresh[e].signCalls = 1
                  /\ refresh[e].message # NoMessage
                  /\ refresh'[e].body =
                       AuthBody(refresh[e].message,
                                Signature(signer[m], refresh[e].message))
          /\ refresh[e].pc \in {"getAddress", "signMessage"}
               => auth'[m] = auth[m]
          /\ (refresh[e].pc = "post" /\ auth'[m] # auth[m])
               => refresh'[e].pc \in Persisting
          /\ (refresh'[e].pc \in Persisting /\ refresh[e].pc \notin Persisting)
               => /\ refresh[e].pc = "post"
                  /\ refresh[e].postCalls = 1
                  /\ auth'[m] = refresh'[e].cred
                  /\ auth'[m] # NoAuth
          /\ (refresh[e].pc = "persistEncrypt" /\ localStorage' # localStorage)
               => (auth[m] = refresh[e].cred /\ auth[m] # NoAuth)
          /\ storageOps'[m].setItem > storageOps[m].setItem
               => \E d \in Episodes :
                    /\ refresh[d].mgr = m
                    /\ refresh[d].pc = "persistEncrypt"
                    /\ auth[m] = refresh[d].cred]_vars

\* An episode went through every step: one signature, one POST, the
\* Credential set and then written to storage.
C29_Witness ==
  \E e \in Episodes :
    /\ refresh[e].pc = "done"
    /\ refresh[e].signCalls = 1
    /\ refresh[e].postCalls = 1
    /\ refresh[e].persist = "written"
    /\ auth[refresh[e].mgr] = refresh[e].cred
    /\ storageOps[refresh[e].mgr].setItem = 1

\* The step installs in manager m the Credential of a successful exchange of
\* one of m's refreshes.
SetByExchange(m) ==
  \E e \in Episodes : \E x \in ExpiresInValues :
    /\ refresh[e].mgr = m
    /\ refresh[e].pc = "post"
    /\ refresh'[e].pc \in Persisting
    /\ auth'[m] = NewAuth(IssuedToken(e), x)

\* The step is create()'s load installing in m the Auth of the record it
\* read, which decrypts under m's signer and has not expired.
SetByLoad(m) ==
  /\ mstate[m] = "loading"
  /\ mstate'[m] = "ready"
  /\ auth[m] = NoAuth
  /\ Decrypts(loadData[m], signer[m])
  /\ auth'[m] = PersistedAuth(loadData[m], signer[m])
  /\ auth'[m] # NoAuth
  /\ auth'[m].expiredAt > now

\* C30: an AuthManager starts without a Credential, and every step that
\* changes the Credential it holds is either the success of a POST /v1/auth
\* exchange of that manager's own refresh or the load at create() of a
\* persisted record that decrypted under the manager's signer and was
\* unexpired when loaded; no other step sets, changes or clears it.
C30_CredentialProvenance ==
  /\ \A m \in Managers : auth[m] = NoAuth
  /\ [][\A m \in Managers :
          auth'[m] # auth[m] => (SetByExchange(m) \/ SetByLoad(m))]_vars

\* A manager loaded a Credential from storage and, once that had expired,
\* replaced it by the one of a successful exchange.
C30_Witness ==
  \E m \in Managers : \E e \in Episodes :
    /\ refresh[e].mgr = m
    /\ refresh[e].before # NoAuth
    /\ refresh[e].before.token = OldToken
    /\ refresh[e].cred # NoAuth
    /\ auth[m] = refresh[e].cred
    /\ auth[m].token = IssuedToken(e)

\* C31: getTokenList answers from the cache while it is fresh.  A call made
\* when a list is cached and less than 24 hours have passed since the fetch
\* time returns that list in the same step, without fetching; any other call
\* fetches; and the cache is written only by a call whose response parsed,
\* together with the time read when that call began.
C31_TokenListCachedWithinTtl ==
  [][/\ \A c \in Callers :
          (/\ tokenCall[c].pc = "idle"
           /\ lookup[c].pc = "idle"
           /\ tokenCall'[c] # tokenCall[c])
            => IF /\ cachedTokenList # NoList
                  /\ now - tokenFetchTime < 24 * 60 * 60 * 1000
                 THEN /\ tokenCall'[c].pc = "idle"
                      /\ ~tokenCall'[c].fetched
                      /\ tokenCall'[c].result = Value(cachedTokenList)
                 ELSE /\ tokenCall'[c].pc = "fetch"
                      /\ tokenCall'[c].fetched
     /\ (cachedTokenList' # cachedTokenList \/ tokenFetchTime' # tokenFetchTime)
          => \E c \in Callers :
               /\ tokenCall[c].pc = "json"
               /\ tokenCall'[c].pc = "idle"
               /\ cachedTokenList' # NoList
               /\ tokenCall'[c].result = Value(cachedTokenList')
               /\ tokenFetchTime' = tokenCall[c].now]_vars

\* One caller was answered from the cache a millisecond before the list
\* fetched at 0 turned 24 hours old; the other, calling at 24 hours, is
\* fetching again.
C31_Witness ==
  \E c, d \in Callers :
    /\ cachedTokenList # NoList
    /\ tokenFetchTime = 0
    /\ tokenCall[c].pc = "idle"
    /\ tokenCall[c].now = CACHE_TTL_MS - 1
    /\ ~tokenCall[c].fetched
    /\ tokenCall[c].result = Value(cachedTokenList)
    /\ tokenCall[d].pc = "fetch"
    /\ tokenCall[d].now = CACHE_TTL_MS

\* C32: a failed fetch falls back on the cache.  When fetch rejects or the
\* response is not ok, the call settles in that step with the cached list,
\* however old, or throws when none is cached; the cached list and its fetch
\* time stay as they were; and a cached list is never dropped, so a call
\* throws only when no list was ever cached.
C32_StaleTokenListFallback ==
  [][/\ \A c \in Callers : \A outcome \in {"notOk", "error"} :
          TokenListFetched(c, outcome)
            => /\ cachedTokenList' = cachedTokenList
               /\ tokenFetchTime' = tokenFetchTime
               /\ tokenCall'[c].pc = "idle"
               /\ IF cachedTokenList # NoList
                    THEN tokenCall'[c].result = Value(cachedTokenList)
                    ELSE tokenCall'[c].result.kind = "error"
     /\ cachedTokenList # NoList => cachedTokenList' # NoList]_vars

\* The only caller so far fetched a list at 0 and called again 24 hours
\* later; that fetch failed and the call returned the expired list.
C32_Witness ==
  \E c \in Callers :
    /\ \A d \in Callers \ {c} : tokenCall[d] = IdleTokenCall
    /\ cachedTokenList # NoList
    /\ tokenFetchTime = 0
    /\ tokenCall[c].pc = "idle"
    /\ tokenCall[c].fetched
    /\ tokenCall[c].now = CACHE_TTL_MS
    /\ tokenCall[c].result = Value(cachedTokenList)

\* AuthManagers constructed so far.
Constructed == {m \in Managers : mstate[m] # "none"}

\* C33: a Merchant creates at most one AuthManager, whatever the
\* interleaving of its calls, so that at most one refresh is unsettled at a
\* time and concurrent first calls cost one signature request and one
\* POST /v1/auth.
C33_SingleAuthManager ==
  /\ Cardinality(Constructed) <= 1
  /\ Cardinality({e \in Episodes : refresh[e].promise = "pending"}) <= 1

\* The positions of a refresh before its exchange has succeeded.
BeforeExchange == {"getAddress", "signMessage", "post"}

\* C34: a failed refresh leaves the held Credential alone.  A refresh that
\* rejects does so from a position before its exchange succeeded, in a step
\* that does not change the Credential; while a call waits on a refresh that
\* is at such a position or has rejected, no step other than the success of
\* the exchange changes the Credential; and when the call that started a
\* rejected refresh returns, the Credential is the one held when it started.
C34_FailedRefreshKeepsCredential ==
  [][/\ \A e \in Episodes : \A m \in Managers :
          (/\ refresh[e].mgr = m
           /\ refresh[e].promise = "pending"
           /\ refresh'[e].promise = "rejected")
            => (refresh[e].pc \in BeforeExchange /\ auth'[m] = auth[m])
     /\ \A c \in Callers : \A m \in Managers :
          (caller[c].pc # "idle" /\ caller[c].mgr = m)
            => /\ (/\ \/ refresh[caller[c].ep].pc \in BeforeExchange
                      \/ refresh[caller[c].ep].promise = "rejected"
                   /\ refresh'[caller[c].ep].pc \notin Persisting)
                    => auth'[m] = auth[m]
               /\ (/\ StarterSettles(c)
                   /\ refresh[caller[c].ep].promise = "rejected")
                    => /\ observed'.result = "rejected"
                       /\ auth'[m] = refresh[caller[c].ep].before]_vars

\* A call that joined a refresh has rejected and the expired Credential
\* held when it joined is still held.
C34_Witness ==
  /\ observed.op = "joined"
  /\ observed.result = "rejected"
  /\ observed.mgr \in Managers
  /\ auth[observed.mgr] # NoAuth
  /\ auth[observed.mgr].token = OldToken

\* C35: a failed refresh leaves storage alone.  From the start of a refresh
\* until its exchange has succeeded, and in the step in which it rejects, the
\* stored item is unchanged and the manager calls neither setItem nor
\* removeItem; a refresh rejects only from such a position.
C35_FailedRefreshKeepsStorage ==
  [][\A e \in Episodes : \A m \in Managers :
       (/\ refresh'[e].mgr = m
        /\ \/ refresh[e].pc \in BeforeExchange
           \/ refresh[e].pc = "none"
           \/ refresh[e].promise = "pending"
                /\ refresh'[e].promise = "rejected")
         => /\ localStorage' = localStorage
            /\ storageOps'[m].setItem = storageOps[m].setItem
            /\ storageOps'[m].removeItem = storageOps[m].removeItem
            /\ refresh'[e].promise = "rejected"
                 => refresh[e].pc \in BeforeExchange \cup {"none"}]_vars

\* A refresh was rejected by the exchange; the record found in storage at
\* create() is still there and the manager has neither written nor removed
\* anything.
C35_Witness ==
  \E e \in Episodes : \E m \in Managers :
    /\ refresh[e].mgr = m
    /\ refresh[e].promise = "rejected"
    /\ refresh[e].postCalls = 1
    /\ localStorage # NoItem
    /\ storageOps[m].getItem = 1
    /\ storageOps[m].setItem = 0
    /\ storageOps[m].removeItem = 0

\* C36: memory and storage agree after a refresh that persisted.  In a
\* browser, when a call of ensureAuthenticated() returns from a refresh whose
\* storage write succeeded, the call resolves, a Credential is held, and the
\* stored record decrypts under the signer's address and parses to exactly
\* that Credential.
C36_MemoryMatchesStorage ==
  [][\A c \in Callers : \A m \in Managers :
       (/\ Settles(c)
        /\ caller[c].mgr = m
        /\ hasWindow /\ hasLocalStorage
        /\ refresh[caller[c].ep].persist = "written")
         => /\ observed'.result = "resolved"
            /\ auth'[m] # NoAuth
            /\ localStorage' # NoItem
            /\ Decrypts(localStorage', signer'[m])
            /\ PersistedAuth(localStorage', signer'[m]) = auth'[m]]_vars

\* The second refresh of a manager has replaced an earlier record: its
\* starter has resolved and storage holds the Credential of that refresh.
C36_Witness ==
  \E e \in Episodes : \E m \in Managers :
    /\ e > 1
    /\ refresh[e].mgr = m
    /\ refresh[e].persist = "written"
    /\ refresh[e].starterOutcome = "resolved"
    /\ observed = Return(m, "started", "resolved")
    /\ auth[m] # NoAuth
    /\ auth[m].token = IssuedToken(e)
    /\ PersistedAuth(localStorage, signer[m]) = auth[m]

\* C37: when every signer call, exchange and persistence step settles, every
\* call of ensureAuthenticated() that is waiting on a refresh returns in the
\* end, and an AuthManager whose refreshingToken is set has it null again in
\* the end.
C37_EnsureTerminates ==
  /\ \A c \in Callers : (caller[c].pc # "idle") ~> (caller[c].pc = "idle")
  /\ \A m \in Managers : (refreshingToken[m] # 0) ~> (refreshingToken[m] = 0)

\* A joined call is still waiting on a refresh that has rejected and whose
\* starter has already returned and cleared refreshingToken.
C37_Witness ==
  \E c \in Callers :
    /\ caller[c].pc = "joined"
    /\ refresh[caller[c].ep].promise = "rejected"
    /\ refresh[caller[c].ep].starterOutcome = "rejected"
    /\ refreshingToken[caller[c].mgr] = 0

\* C38: failed authentication stops the call.  For a Merchant with a signer,
\* when the ensureAuthenticated() a createPayment or queryPayments call
\* awaits rejects, the call is left with that rejection, its next step
\* rejects it and it is over without a /v1/channels request; and a call
\* that waited for a refresh goes on towards its request only from a
\* resolved ensureAuthenticated(), when that refresh has succeeded.
C38_AuthFailureStopsCall ==
  [][\A c \in Callers :
       (config.signer # NoSigner)
         => /\ (/\ call[c].pc = "ensuring"
                /\ caller[c].pc # "idle"
                /\ caller'[c].pc = "idle"
                /\ refresh[caller[c].ep].promise = "rejected")
                 => /\ call'[c].pc = "ensureFailed"
                    /\ observed'.result = "rejected"
                    /\ observed'.mgr = call[c].mgr
            /\ (call[c].pc = "ensureFailed" /\ call'[c] # call[c])
                 => call'[c] = IdleCall
            /\ (/\ call[c].pc \notin {"metadata", "request"}
                /\ call'[c].pc \in {"metadata", "request"}
                /\ call[c].ep # 0)
                 => /\ call[c].pc = "ensured"
                    /\ refresh[call[c].ep].promise = "fulfilled"]_vars

\* The exchange of a Merchant's refresh failed and the call waiting on it
\* is about to be rejected; no call has a request under way.
C38_Witness ==
  /\ config.signer # NoSigner
  /\ observed.result = "rejected"
  /\ observed.op \in {"started", "joined"}
  /\ \E c \in Callers : call[c].pc = "ensureFailed"
  /\ \A c \in Callers : call[c].pc \notin {"metadata", "request"}
  /\ \E e \in Episodes :
       refresh[e].promise = "rejected" /\ refresh[e].mgr = observed.mgr

\* C39: the cached operator address is null or a valid address taken from
\* an ok response.  It starts null; it and its fetch time change only in the
\* step in which a call's ok response has parsed to an operator that passes
\* isAddress, which is then the cached value, or when the cache is reset to
\* null; and a fetch that fails, a body that does not parse and a missing or
\* invalid operator leave both as they were.
C39_CachedOperatorIsValid ==
  /\ cachedOperatorAddress = NoAddress
  /\ [](cachedOperatorAddress = NoAddress \/ isAddress(cachedOperatorAddress))
  /\ [][/\ (\/ cachedOperatorAddress' # cachedOperatorAddress
             \/ lastFetchTime' # lastFetchTime)
            => \/ cachedOperatorAddress' = NoAddress /\ lastFetchTime' = 0
               \/ \E c \in Callers : \E operator \in Operators :
                    /\ isAddress(operator)
                    /\ OperatorParsed(c, TRUE, operator)
                    /\ cachedOperatorAddress' = operator
        /\ \A c \in Callers :
             /\ \A outcome \in {"notOk", "error"} :
                  OperatorFetched(c, outcome)
                    => UNCHANGED <<cachedOperatorAddress, lastFetchTime>>
             /\ \A parsed \in BOOLEAN, operator \in Operators :
                  (/\ ~parsed \/ ~isAddress(operator)
                   /\ OperatorParsed(c, parsed, operator))
                    => UNCHANGED <<cachedOperatorAddress, lastFetchTime>>
       ]_vars

\* An address cached at 0 is still cached, with its fetch time, after a
\* call made 24 hours later fetched and failed.
C39_Witness ==
  \E c \in Callers :
    /\ cachedOperatorAddress = "0xOP1"
    /\ lastFetchTime = 0
    /\ verify[c].now = CACHE_TTL_MS
    /\ verify[c].fetch = "failed"
    /\ verify[c].address = "0xOP1"

====
